---- MODULE Spec2Model ----
(***************************************************************************)
(* Local-first sync layer of choredomino: the IndexedDB store of one       *)
(* collection (db/operations.ts), its _sync_meta record, the remote table, *)
(* the realtime channel, and the pull / push / realtime handlers of        *)
(* db/sync.ts with the conflict resolver of db/conflict.ts.                *)
(*                                                                         *)
(* Every collection is synced by the same code against its own object      *)
(* store and its own _sync_meta record, so one collection is modelled.     *)
(* pullCollection and pushLocalChanges are split at their awaits: another  *)
(* handler can run between two steps of one of them.                       *)
(***************************************************************************)
EXTENDS Integers, Sequences, FiniteSets, TLC

\* ---------------------------------------------------------------- bounds
MaxClock == 2
NumIds == 2
NumVals == 2
MaxEvents == 2
MaxLeaked == 1
MaxPoints == 2
MaxQuantity == 1
MaxRedemptions == 1

Ids == 1..NumIds
Vals == 1..NumVals
Times == 1..MaxClock

\* val stands for the domain fields of a document. The application writes
\* the first value, other clients write the others, so val tells whose write
\* a copy holds.
AppVals == {1}
OtherVals == Vals \ AppVals

\* The two places forceSyncAll is invoked from: the 'online' listener
\* (sync.ts:371) and the application itself (tests.ts:285).
Callers == {"listener", "app"}

\* error.code values of a failed remote request; the first three are the
\* schema-not-provisioned codes the handlers test for, "throw" is a rejected
\* promise caught by the handler's try/catch.
ErrorCodes == {"PGRST205", "42703", "42P01", "other", "throw"}

VARIABLES
    now,        \* Date.now() of the client
    isOnline,   \* syncState.isOnline
    isSyncing,  \* syncState.isSyncing
    subscribed, \* syncState.channels has a live channel of the collection
    published,  \* the channel of the collection delivers the table's changes
    leaked,     \* channels subscribed and no longer held in syncState.channels
    lastSync,   \* syncState.lastSync, 0 for null
    available,  \* isSupabaseAvailable(): the remote credentials are set
    started,    \* per collection: its position in startAllSync and its outcomes
    dbInstance, \* the open connection of indexeddb.ts, "null" when closed
    household_members,  \* remote: points of each member
    rewards,            \* remote: reward id -> row
    reward_redemptions, \* remote: the rows inserted, in order
    sessions,   \* remote: per session, the statement in flight and what it read
    chore_completions,  \* remote: completion id -> row
    local,      \* the collection's object store: id -> document
    meta,       \* the collection's _sync_meta record: {} or {record}
    remote,     \* the remote table: id -> row
    events,     \* realtime payloads not yet handled
    pc,         \* position of each forceSyncAll invocation
    syncMeta,   \* per invocation: the _sync_meta record its handler read
    data,       \* per invocation: rows returned by the pull's select
    batch,      \* per invocation: getModifiedSince result of its push
    watch,      \* which history the specification records
    quiet,      \* the writes and the failures have stopped
    call,       \* a call of a pure function: its arguments and its result
    owed,       \* history "offline": ids written offline, not overwritten since
    failed,     \* history "retry": ids of the last failed push, not overwritten since
    pullRange   \* history "range": lastPull of the last failed pull, -1 when none

vars == <<now, isOnline, isSyncing, subscribed, published, leaked, lastSync,
          available, started, dbInstance, household_members, rewards,
          reward_redemptions, sessions, chore_completions, local, meta, remote, events, pc, syncMeta, data, batch, watch,
          quiet, call, owed, failed, pullRange>>

\* The connection to the local database and the tables of the points ledger
sqlVars == <<household_members, rewards, reward_redemptions, sessions, chore_completions>>
dbVars == <<dbInstance, sqlVars>>

\* ------------------------------------------------------- pure helpers
Max(a, b) == IF a >= b THEN a ELSE b

\* f with key k bound to v (IDBObjectStore.put)
Put(f, k, v) == [i \in DOMAIN f \cup {k} |-> IF i = k THEN v ELSE f[i]]

\* f without key k (IDBObjectStore.delete)
Del(f, k) == [i \in DOMAIN f \ {k} |-> f[i]]

EmptyStore == [i \in {} |-> 0]

\* `x || d` on a number: 0 and undefined are falsy
OrElse(x, d) == IF x = 0 THEN d ELSE x

\* syncMeta?.lastPullTimestamp, undefined read as 0
LastPullOf(m) == IF m = {} THEN 0 ELSE (CHOOSE r \in m : TRUE).lastPullTimestamp

\* syncMeta?.lastPushTimestamp, undefined read as 0
LastPushOf(m) == IF m = {} THEN 0 ELSE (CHOOSE r \in m : TRUE).lastPushTimestamp

MetaRecord(pull, push) == {[lastPullTimestamp |-> pull, lastPushTimestamp |-> push]}

\* ------------------------------------------------ documents and rows
\* A stored document has the fields id, val (the domain fields), updatedAt,
\* modified and isDeleted; a remote row has id, val, _modified and _deleted.

\* {...l, ...r}: object spread, r's own fields override l's
Spread(l, r) == [f \in DOMAIN l \cup DOMAIN r |-> IF f \in DOMAIN r THEN r[f] ELSE l[f]]

\* Math.max(undefined, x) is NaN
NaN == -1

FieldOr(d, f, dflt) == IF f \in DOMAIN d THEN d[f] ELSE dflt

MathMax(a, b) == IF a = NaN \/ b = NaN THEN NaN ELSE Max(a, b)

\* ------------------------------------------------ db/operations.ts
\* {modified: now, ...document, updatedAt: now}: the document's own modified
\* is kept
StampKeepsModified(doc, t) == Spread(Spread([modified |-> t], doc), [updatedAt |-> t])

\* {...document, updatedAt: now, modified: now}
Stamp(doc, t) == Spread(doc, [updatedAt |-> t, modified |-> t])

\* insert: createdAt is a domain field the sync layer never reads, it is
\* part of val here
insert(store, doc, t) == Put(store, doc.id, Stamp(doc, t))

upsert(store, doc, t) == Put(store, doc.id, Stamp(doc, t))

\* store.add in the place of store.put: a stored document is left as it is
RECURSIVE bulkUpsertAdd(_, _, _)
bulkUpsertAdd(store, docs, t) ==
    IF docs = <<>> THEN store
    ELSE bulkUpsertAdd(IF Head(docs).id \in DOMAIN store THEN store
                       ELSE Put(store, Head(docs).id, Stamp(Head(docs), t)),
                       Tail(docs), t)

RECURSIVE bulkUpsert(_, _, _)
bulkUpsert(store, docs, t) ==
    IF docs = <<>> THEN store
    ELSE bulkUpsert(Put(store, Head(docs).id, Stamp(Head(docs), t)), Tail(docs), t)

getById(store, id) == IF id \in DOMAIN store THEN {store[id]} ELSE {}

\* A soft delete that would leave modified as it was
removeKeepsModified(store, id, hard, t) ==
    IF hard THEN Del(store, id)
    ELSE IF id \in DOMAIN store
         THEN Put(store, id, Spread(store[id], [isDeleted |-> TRUE, updatedAt |-> t]))
         ELSE store

remove(store, id, hard, t) ==
    IF hard THEN Del(store, id)
    ELSE IF id \in DOMAIN store
         THEN Put(store, id,
                  Spread(store[id], [isDeleted |-> TRUE, updatedAt |-> t, modified |-> t]))
         ELSE store

\* The documents of `docs` (a set with distinct ids) in the order of the
\* index on `key`, ties in primary-key order
RECURSIVE InIndexOrder(_, _)
InIndexOrder(docs, key) ==
    IF docs = {} THEN <<>>
    ELSE LET first == CHOOSE d \in docs : \A e \in docs :
                          \/ d[key] < e[key]
                          \/ d[key] = e[key] /\ d.id <= e.id
         IN  <<first>> \o InIndexOrder(docs \ {first}, key)

StoredDocs(store) == {store[i] : i \in DOMAIN store}

\* db.getAll: every stored document, in primary-key order
getAll(store) == InIndexOrder(StoredDocs(store), "id")

\* all.filter(filter); the predicate is the function document -> BOOLEAN
query(store, filter) == SelectSeq(getAll(store), LAMBDA d : filter[d])

\* IDBKeyRange.lowerBound(timestamp): a closed lower bound
getModifiedSinceClosed(store, timestamp) ==
    InIndexOrder({d \in StoredDocs(store) : d.modified >= timestamp}, "modified")

\* IDBKeyRange.lowerBound(timestamp, true) on the by-modified index
getModifiedSince(store, timestamp) ==
    InIndexOrder({d \in StoredDocs(store) : d.modified > timestamp}, "modified")

SeqIds(docs) == {docs[i].id : i \in 1..Len(docs)}

\* ------------------------------------------------ db/conflict.ts
\* The comparison turned round: the older side wins
resolveConflictOldest(l, r) ==
    IF l.id # r.id THEN [error |-> "ID mismatch"]
    ELSE IF l.modified < r.modified THEN [winner |-> l, source |-> "local"]
    ELSE IF r.modified < l.modified THEN [winner |-> r, source |-> "remote"]
    ELSE [winner |-> Spread(Spread(l, r),
                            [updatedAt |-> MathMax(FieldOr(l, "updatedAt", NaN),
                                                   FieldOr(r, "updatedAt", NaN)),
                             modified |-> r.modified]),
          source |-> "merged"]

\* The merge turned round: {...remote, ...local}
resolveConflictLocalFirst(l, r) ==
    IF l.id # r.id THEN [error |-> "ID mismatch"]
    ELSE IF l.modified > r.modified THEN [winner |-> l, source |-> "local"]
    ELSE IF r.modified > l.modified THEN [winner |-> r, source |-> "remote"]
    ELSE [winner |-> Spread(Spread(r, l),
                            [updatedAt |-> MathMax(FieldOr(l, "updatedAt", NaN),
                                                   FieldOr(r, "updatedAt", NaN)),
                             modified |-> r.modified]),
          source |-> "merged"]

\* The id check left out
resolveConflictAnyId(l, r) ==
    IF l.modified > r.modified THEN [winner |-> l, source |-> "local"]
    ELSE IF r.modified > l.modified THEN [winner |-> r, source |-> "remote"]
    ELSE [winner |-> Spread(Spread(l, r),
                            [updatedAt |-> MathMax(FieldOr(l, "updatedAt", NaN),
                                                   FieldOr(r, "updatedAt", NaN)),
                             modified |-> r.modified]),
          source |-> "merged"]

\* resolveConflict: the thrown Error is the record with the field error
resolveConflict(l, r) ==
    IF l.id # r.id THEN [error |-> "ID mismatch"]
    ELSE IF l.modified > r.modified THEN [winner |-> l, source |-> "local"]
    ELSE IF r.modified > l.modified THEN [winner |-> r, source |-> "remote"]
    ELSE [winner |-> Spread(Spread(l, r),
                            [updatedAt |-> MathMax(FieldOr(l, "updatedAt", NaN),
                                                   FieldOr(r, "updatedAt", NaN)),
                             modified |-> r.modified]),
          source |-> "merged"]

\* A Map<string, T> is the sequence of its values in insertion order
\* merged.get(id): {} when the key is absent
MapGet(m, id) == {m[i] : i \in {j \in 1..Len(m) : m[j].id = id}}

\* A list in the place of the Map: every set adds an entry
MapSetAppends(m, doc) == Append(m, doc)

\* merged.set(doc.id, doc): a key already present keeps its position
MapSet(m, doc) ==
    IF MapGet(m, doc.id) = {} THEN Append(m, doc)
    ELSE [i \in 1..Len(m) |-> IF m[i].id = doc.id THEN doc ELSE m[i]]

\* for (const doc of local) merged.set(doc.id, doc)
RECURSIVE MapSetAll(_, _)
MapSetAll(m, docs) ==
    IF docs = <<>> THEN m ELSE MapSetAll(MapSet(m, Head(docs)), Tail(docs))

\* for (const remoteDoc of remote) ...; an Error thrown by resolveConflict
\* leaves the loop
RECURSIVE MergeRemote(_, _)
MergeRemote(m, docs) ==
    IF docs = <<>> THEN [returns |-> m]
    ELSE LET remoteDoc == Head(docs)
             localDoc == MapGet(m, remoteDoc.id)
         IN  IF localDoc = {} THEN MergeRemote(MapSet(m, remoteDoc), Tail(docs))
             ELSE LET resolution == resolveConflict(CHOOSE d \in localDoc : TRUE, remoteDoc)
                  IN  IF "error" \in DOMAIN resolution THEN resolution
                      ELSE MergeRemote(MapSet(m, resolution.winner), Tail(docs))

\* mergeDocuments: [returns |-> Array.from(merged.values())], or the Error
mergeDocuments(l, r) == MergeRemote(MapSetAll(<<>>, l), r)

\* ------------------------------------------------ the remote service
\* NOW() of the server as the trigger update_updated_at_column stamps it
ServerNow == now

\* .gt('_modified', lastPull).order('_modified', {ascending: true})
SelectSince(table, lastPull) ==
    InIndexOrder({table[i] : i \in {j \in DOMAIN table : table[j]._modified > lastPull}},
                 "_modified")

\* pull's row.map: _modified -> modified, _deleted -> isDeleted
MapRow(row) ==
    [id |-> row.id, val |-> row.val, modified |-> row._modified, isDeleted |-> row._deleted]

RECURSIVE MapRows(_)
MapRows(rows) == IF rows = <<>> THEN <<>> ELSE <<MapRow(Head(rows))>> \o MapRows(Tail(rows))

\* push's docsToUpsert.map: modified -> _modified, isDeleted -> _deleted
MapDoc(doc) ==
    [id |-> doc.id, val |-> doc.val, _modified |-> doc.modified,
     _deleted |-> FieldOr(doc, "isDeleted", FALSE)]

\* docsToUpsert without its filter
DocsToUpsertAll(docs) == docs

\* docsToUpsert / docsToDelete of pushLocalChanges
DocsToUpsert(docs) == SelectSeq(docs, LAMBDA d : ~FieldOr(d, "isDeleted", FALSE))
DocsToDelete(docs) == SelectSeq(docs, LAMBDA d : FieldOr(d, "isDeleted", FALSE))

\* .upsert(rows): INSERT ... ON CONFLICT DO UPDATE; the BEFORE UPDATE trigger
\* overwrites _modified of a row that already exists
RECURSIVE RemoteUpsert(_, _, _)
RemoteUpsert(table, docs, t) ==
    IF docs = <<>> THEN table
    ELSE LET row == MapDoc(Head(docs))
             stored == IF row.id \in DOMAIN table
                       THEN [row EXCEPT !._modified = t] ELSE row
         IN  RemoteUpsert(Put(table, row.id, stored), Tail(docs), t)

\* .delete().in('id', ids)
RemoteDelete(table, ids) == [i \in DOMAIN table \ ids |-> table[i]]

\* postgres_changes payloads of an upsert, in row order
RECURSIVE UpsertEvents(_, _, _)
UpsertEvents(table, docs, t) ==
    IF docs = <<>> THEN <<>>
    ELSE LET id == Head(docs).id
             after == RemoteUpsert(table, <<Head(docs)>>, t)
         IN  <<[eventType |-> IF id \in DOMAIN table THEN "UPDATE" ELSE "INSERT",
                row |-> after[id]]>>
             \o UpsertEvents(after, Tail(docs), t)

\* postgres_changes payloads of a delete; old is the deleted row
RECURSIVE DeleteEvents(_, _)
DeleteEvents(table, docs) ==
    IF docs = <<>> THEN <<>>
    ELSE (IF Head(docs).id \in DOMAIN table
          THEN <<[eventType |-> "DELETE", row |-> table[Head(docs).id]]>> ELSE <<>>)
         \o DeleteEvents(table, Tail(docs))

\* The channel delivers the changes of a published table to a client that is
\* subscribed and connected; delivery is at most once, and a payload that
\* finds MaxEvents payloads waiting is lost
Delivered(evs) ==
    IF published /\ (subscribed \/ leaked > 0) /\ isOnline
    THEN SubSeq(evs, 1, IF Len(evs) <= MaxEvents - Len(events)
                        THEN Len(evs) ELSE MaxEvents - Len(events))
    ELSE <<>>

\* ------------------------------------------------ initial state
\* The tables of the points ledger empty, no statement in flight
NoLedger ==
    /\ household_members = <<>>
    /\ rewards = <<>>
    /\ reward_redemptions = <<>>
    /\ sessions = <<>>
    /\ chore_completions = <<>>

\* The collections startAllSync lists
Collections ==
    {"households", "users", "chores", "completions", "rewards", "reward_redemptions",
     "point_adjustments", "notification_preferences"}

\* No startAllSync has run
NotStarted ==
    [col \in Collections |->
        [at |-> "idle", pulled |-> "none", channel |-> FALSE, pushed |-> "none"]]

NoMeta == {}
NoDocs == <<>>
NoCall == [fn |-> "none"]

\* The client after the module of sync.ts is loaded, the store empty
InitSync(w, pub, avail) ==
    /\ now = 1
    /\ leaked = 0
    /\ lastSync = 0
    /\ available = avail
    /\ started = NotStarted
    /\ dbInstance = "open"
    /\ isOnline \in BOOLEAN
    /\ isSyncing = FALSE
    /\ subscribed = FALSE
    /\ published = pub
    /\ local = EmptyStore
    /\ meta = NoMeta
    /\ remote = EmptyStore
    /\ events = <<>>
    /\ pc = [c \in Callers |-> "idle"]
    /\ syncMeta = [c \in Callers |-> NoMeta]
    /\ data = [c \in Callers |-> NoDocs]
    /\ batch = [c \in Callers |-> NoDocs]
    /\ watch = w
    /\ quiet = FALSE
    /\ call = NoCall
    /\ owed = {}
    /\ failed = {}
    /\ pullRange = -1

\* The same, and no row in the tables of the points ledger
InitState(w, pub, avail) == InitSync(w, pub, avail) /\ NoLedger

\* The same with the remote credentials set
InitWith(w, pub) == InitState(w, pub, TRUE)

syncVars == <<pc, syncMeta, data, batch>>
modeVars == <<watch, quiet, call, available, started, dbVars>>
histVars == <<modeVars, owed, failed, pullRange>>
flagVars == <<isOnline, isSyncing, subscribed, published, leaked, lastSync>>

\* A history variable changes only in the specification that records it
Noted(w, new, old) == IF watch = w THEN new ELSE old

\* The ids of `docs` that the store still holds as they are in docs
StillStored(store, docs) ==
    {docs[i].id : i \in {j \in 1..Len(docs) : getById(store, docs[j].id) = {docs[j]}}}

\* History "unsent": the ids of `owed` less those a request has just sent
\* as they are stored
Sent(docs) == Noted("unsent", owed \ StillStored(local, docs), owed)

\* ------------------------------------------------ the clock
Tick ==
    /\ now < MaxClock
    /\ now' = now + 1
    /\ UNCHANGED <<flagVars, local, meta, remote, events, syncVars, histVars>>

\* ------------------------------------------------ application writes
\* A write of the application; `store` is the object store after it
LocalWrite(id, store) ==
    /\ local' = store
    /\ owed' = Noted("offline",
                     IF id \notin DOMAIN store THEN owed \ {id}
                     ELSE IF isOnline THEN owed ELSE owed \cup {id},
                     Noted("unsent",
                           IF id \notin DOMAIN store THEN owed \ {id} ELSE owed \cup {id},
                           Noted("ingested", owed \ {id}, owed)))
    /\ UNCHANGED <<now, flagVars, meta, remote, events, syncVars, modeVars, failed, pullRange>>

Insert(id, v) ==
    LocalWrite(id, insert(local, [id |-> id, val |-> v, isDeleted |-> FALSE], now))

\* the update of tests.ts: upsert({...stored, field: v})
Upsert(id, v) ==
    /\ id \in DOMAIN local
    /\ LocalWrite(id, upsert(local, [local[id] EXCEPT !.val = v], now))

Remove(id, hard) ==
    /\ id \in DOMAIN local
    /\ LocalWrite(id, remove(local, id, hard, now))

\* ------------------------------------------------ writes of other clients
RemoteChange(table, evs) ==
    /\ remote' = table
    /\ events' = events \o Delivered(evs)

\* No statement of the repository sets _deleted to TRUE on the server.
RemoteWrite(id, v) ==
    LET row == [id |-> id, val |-> v, _modified |-> ServerNow, _deleted |-> FALSE]
    IN  /\ RemoteChange(Put(remote, id, row),
                        <<[eventType |-> IF id \in DOMAIN remote THEN "UPDATE" ELSE "INSERT",
                           row |-> row]>>)
        /\ UNCHANGED <<now, flagVars, local, meta, syncVars, histVars>>

\* The values NOW() of the server can take for a write: its clock is not the
\* client's, _modified is whole seconds and so can lie below every stamp of
\* the client, and it does not move back
ServerClock(table) == {t \in 0..MaxClock : \A i \in DOMAIN table : t >= table[i]._modified}

\* A write of another client stamped t by update_updated_at_column
RemoteWriteAt(id, v, t) ==
    LET row == [id |-> id, val |-> v, _modified |-> t, _deleted |-> FALSE]
    IN  /\ RemoteChange(Put(remote, id, row),
                        <<[eventType |-> IF id \in DOMAIN remote THEN "UPDATE" ELSE "INSERT",
                           row |-> row]>>)
        /\ UNCHANGED <<now, flagVars, local, meta, syncVars, histVars>>

RemoteRemove(id) ==
    /\ id \in DOMAIN remote
    /\ RemoteChange(Del(remote, id), <<[eventType |-> "DELETE", row |-> remote[id]]>>)
    /\ UNCHANGED <<now, flagVars, local, meta, syncVars, histVars>>

\* ------------------------------------------------ db/sync.ts
Goto(c, label) == pc' = [pc EXCEPT ![c] = label]

TableMissing(code) == code \in {"PGRST205", "42703", "42P01"}

\* Credentials that would count as set whatever the environment holds
CredentialsIgnored == TRUE

\* supabaseUrl && supabaseAnonKey
CredentialsSet == available

isSupabaseAvailable == CredentialsSet

\* The client, or null when the credentials are unset
getSupabaseClient == IF CredentialsSet THEN "client" ELSE "null"

\* forceSyncAll up to the first request of pullCollection; startAllSync
\* returns at once in local-only mode
Start(c) ==
    /\ pc[c] = "idle"
    /\ isSyncing' = TRUE
    /\ Goto(c, IF isSupabaseAvailable THEN "pull_select" ELSE "finish")

\* startCollectionSync called on its own, up to the first request of
\* pullCollection; the steps after it are those of the forced sync
StartCollectionSync(c) ==
    /\ pc[c] = "idle"
    /\ Goto(c, IF isSupabaseAvailable /\ getSupabaseClient # "null"
               THEN "pull_select" ELSE "idle")
    /\ UNCHANGED <<now, flagVars, local, meta, remote, events, syncMeta, data, batch,
                   histVars>>

\* pushLocalChanges called on its own, up to its read of the local store
PushLocalChanges(c) ==
    /\ pc[c] = "idle"
    /\ Goto(c, IF getSupabaseClient = "null" \/ ~isOnline THEN "idle" ELSE "push_read")
    /\ UNCHANGED <<now, flagVars, local, meta, remote, events, syncMeta, data, batch,
                   histVars>>

\* An 'offline' listener that would also abandon the syncs in flight
GoOfflineCancels ==
    /\ isOnline
    /\ isOnline' = FALSE
    /\ isSyncing' = FALSE
    /\ pc' = [c \in Callers |-> "idle"]
    /\ UNCHANGED <<now, subscribed, published, leaked, lastSync, local, meta, remote, events,
                   syncMeta, data, batch, histVars>>

\* the 'offline' listener
GoOffline ==
    /\ isOnline
    /\ isOnline' = FALSE
    /\ UNCHANGED <<now, isSyncing, subscribed, published, leaked, lastSync, local, meta, remote, events,
                   syncVars, histVars>>

\* the 'online' listener: isOnline = true, then forceSyncAll
GoOnline ==
    /\ ~isOnline
    /\ isOnline' = TRUE
    /\ Start("listener")
    /\ UNCHANGED <<now, subscribed, published, leaked, lastSync, local, meta, remote, events,
                   syncMeta, data, batch, histVars>>

\* forceSyncAll called by the application
ForceSyncAll ==
    /\ isOnline
    /\ Start("app")
    /\ UNCHANGED <<now, isOnline, subscribed, published, leaked, lastSync, local, meta, remote, events,
                   syncMeta, data, batch, histVars>>

\* startCollectionSync after pullCollection has returned: the channel is
\* subscribed and stored in syncState.channels; pushLocalChanges comes next
EndPull(c) ==
    /\ subscribed' = TRUE
    /\ leaked' = Noted("channels", IF subscribed THEN leaked + 1 ELSE leaked, leaked)
    /\ Goto(c, "push_read")

\* pullCollection: db.get('_sync_meta'), then the select answered with rows
PullSelect(c) ==
    /\ pc[c] = "pull_select"
    /\ isOnline
    /\ LET rows == SelectSince(remote, LastPullOf(meta))
       IN  IF Len(rows) > 0
           THEN /\ syncMeta' = [syncMeta EXCEPT ![c] = meta]
                /\ data' = [data EXCEPT ![c] = rows]
                /\ Goto(c, "pull_bulk")
                /\ UNCHANGED <<subscribed, leaked>>
           ELSE /\ EndPull(c)
                /\ UNCHANGED <<syncMeta, data>>
    /\ pullRange' = Noted("range", -1, pullRange)
    /\ UNCHANGED <<now, isOnline, isSyncing, published, lastSync, local, meta, remote, events,
                   batch, modeVars, owed, failed>>

\* pullCollection: db.get('_sync_meta'), then the select answered with an
\* error or threw; the handler returns
PullSelectFail(c, code) ==
    /\ pc[c] = "pull_select"
    /\ IF TableMissing(code) THEN EndPull(c) ELSE EndPull(c)
    /\ pullRange' = Noted("range", LastPullOf(meta), pullRange)
    /\ UNCHANGED <<now, isOnline, isSyncing, published, lastSync, local, meta, remote, events,
                   syncMeta, data, batch, modeVars, owed, failed>>

\* The rows a pull would write: those no newer local copy stands against
KeepNewer(store, rows) ==
    SelectSeq(rows, LAMBDA row : \/ row.id \notin DOMAIN store
                                 \/ store[row.id].modified <= row._modified)

\* The rows pullCollection writes: data, whatever the store holds
PulledRows(store, rows) == rows

\* pullCollection: bulkUpsert(collection, mappedData), the call noted as rec
PullBulkNoted(c, rec) ==
    /\ pc[c] = "pull_bulk"
    /\ local' = bulkUpsert(local, MapRows(PulledRows(local, data[c])), now)
    /\ data' = [data EXCEPT ![c] = NoDocs]
    /\ Goto(c, "pull_put")
    /\ owed' = IF watch \in {"offline", "unsent"} THEN owed \ SeqIds(data[c])
               ELSE Noted("ingested", owed \cup SeqIds(data[c]), owed)
    /\ failed' = Noted("retry", failed \ SeqIds(data[c]), failed)
    /\ call' = rec
    /\ UNCHANGED <<now, flagVars, meta, remote, events, syncMeta, batch,
                   watch, quiet, available, started, dbVars, pullRange>>

PullBulk(c) == PullBulkNoted(c, call)

\* A failed bulkUpsert that would not end the pull
PullBulkFailPuts(c) ==
    /\ pc[c] = "pull_bulk"
    /\ data' = [data EXCEPT ![c] = NoDocs]
    /\ Goto(c, "pull_put")
    /\ pullRange' = Noted("range", LastPullOf(syncMeta[c]), pullRange)
    /\ UNCHANGED <<now, flagVars, local, meta, remote, events, syncMeta,
                   batch, modeVars, owed, failed>>

\* pullCollection: the bulkUpsert transaction aborts, nothing is written
PullBulkFail(c) ==
    /\ pc[c] = "pull_bulk"
    /\ data' = [data EXCEPT ![c] = NoDocs]
    /\ syncMeta' = [syncMeta EXCEPT ![c] = NoMeta]
    /\ EndPull(c)
    /\ pullRange' = Noted("range", LastPullOf(syncMeta[c]), pullRange)
    /\ UNCHANGED <<now, isOnline, isSyncing, published, lastSync, local, meta, remote, events,
                   batch, modeVars, owed, failed>>

\* the _sync_meta record pullCollection writes
PullMeta(read, t) == MetaRecord(t, OrElse(LastPushOf(read), t))

\* pullCollection: db.put('_sync_meta', ...)
PullPut(c) ==
    /\ pc[c] = "pull_put"
    /\ meta' = PullMeta(syncMeta[c], now)
    /\ syncMeta' = [syncMeta EXCEPT ![c] = NoMeta]
    /\ EndPull(c)
    /\ UNCHANGED <<now, isOnline, isSyncing, published, lastSync, local, remote, events,
                   data, batch, histVars>>

\* pushLocalChanges: the isOnline guard, db.get('_sync_meta'), getModifiedSince
PushReadNoted(c, rec) ==
    /\ pc[c] = "push_read"
    /\ IF ~isOnline
       THEN /\ Goto(c, "finish")
            /\ UNCHANGED <<syncMeta, batch, owed, failed>>
       ELSE LET docs == getModifiedSince(local, LastPushOf(meta))
            IN  /\ IF Len(docs) = 0
                   THEN /\ Goto(c, "finish")
                        /\ UNCHANGED <<syncMeta, batch>>
                   ELSE /\ syncMeta' = [syncMeta EXCEPT ![c] = meta]
                        /\ batch' = [batch EXCEPT ![c] = docs]
                        /\ Goto(c, IF Len(DocsToUpsert(docs)) > 0
                                   THEN "push_upsert" ELSE "push_delete")
                /\ owed' = Noted("offline",
                                 IF c = "listener" THEN {} ELSE owed \ SeqIds(docs), owed)
                /\ failed' = Noted("retry", {}, failed)
    /\ call' = rec
    /\ UNCHANGED <<now, flagVars, local, meta, remote, events, data, watch, quiet, available,
                   started, dbVars, pullRange>>

PushRead(c) == PushReadNoted(c, call)

\* pushLocalChanges: the upsert request succeeds
PushUpsertNoted(c, rec) ==
    /\ pc[c] = "push_upsert"
    /\ isOnline
    /\ RemoteChange(RemoteUpsert(remote, DocsToUpsert(batch[c]), ServerNow),
                    UpsertEvents(remote, DocsToUpsert(batch[c]), ServerNow))
    /\ Goto(c, IF Len(DocsToDelete(batch[c])) > 0 THEN "push_delete" ELSE "push_put")
    /\ call' = rec
    /\ owed' = Sent(DocsToUpsert(batch[c]))
    /\ UNCHANGED <<now, flagVars, local, meta, syncMeta, data, batch, watch, quiet, available,
                   started, dbVars, failed, pullRange>>

PushUpsert(c) == PushUpsertNoted(c, call)

\* pushLocalChanges: a request fails; the handler returns
PushFail(c, at, code) ==
    /\ pc[c] = at
    /\ IF TableMissing(code) THEN Goto(c, "finish") ELSE Goto(c, "finish")
    /\ failed' = Noted("retry", SeqIds(batch[c]), failed)
    /\ batch' = [batch EXCEPT ![c] = NoDocs]
    /\ syncMeta' = [syncMeta EXCEPT ![c] = NoMeta]
    /\ UNCHANGED <<now, flagVars, local, meta, remote, events, data, modeVars, owed, pullRange>>

PushUpsertFail(c, code) == PushFail(c, "push_upsert", code)

\* pushLocalChanges: the delete request succeeds
PushDeleteNoted(c, rec) ==
    /\ pc[c] = "push_delete"
    /\ isOnline
    /\ RemoteChange(RemoteDelete(remote, SeqIds(DocsToDelete(batch[c]))),
                    DeleteEvents(remote, DocsToDelete(batch[c])))
    /\ Goto(c, "push_put")
    /\ call' = rec
    /\ owed' = Sent(DocsToDelete(batch[c]))
    /\ UNCHANGED <<now, flagVars, local, meta, syncMeta, data, batch, watch, quiet, available,
                   started, dbVars, failed, pullRange>>

PushDelete(c) == PushDeleteNoted(c, call)

PushDeleteFail(c, code) == PushFail(c, "push_delete", code)

\* the _sync_meta record pushLocalChanges writes
PushMeta(read, t) == MetaRecord(OrElse(LastPullOf(read), t), t)

\* pushLocalChanges: db.put('_sync_meta', ...)
PushPut(c) ==
    /\ pc[c] = "push_put"
    /\ meta' = PushMeta(syncMeta[c], now)
    /\ batch' = [batch EXCEPT ![c] = NoDocs]
    /\ syncMeta' = [syncMeta EXCEPT ![c] = NoMeta]
    /\ Goto(c, "finish")
    /\ failed' = Noted("retry", {}, failed)
    /\ UNCHANGED <<now, flagVars, local, remote, events, data, modeVars, owed, pullRange>>

\* forceSyncAll: finally isSyncing = false, once every collection is done
Finish(c) ==
    /\ pc[c] = "finish"
    /\ isSyncing' = FALSE
    /\ lastSync' = IF isSupabaseAvailable THEN Noted("network", now, lastSync) ELSE lastSync
    /\ Goto(c, "idle")
    /\ UNCHANGED <<now, isOnline, subscribed, published, leaked, local, meta, remote, events,
                   syncMeta, data, batch, histVars>>

\* stopAllSync: removeChannel of every channel held in syncState.channels,
\* then channels.clear(); a payload on its way to a removed channel finds no
\* callback
StopAllSync ==
    IF getSupabaseClient = "null" THEN UNCHANGED vars
    ELSE /\ subscribed' = FALSE
         /\ events' = IF leaked = 0 THEN <<>> ELSE events
         /\ UNCHANGED <<now, isOnline, isSyncing, published, leaked, lastSync, local, meta,
                        remote, syncVars, histVars>>

\* The document handleRealtimeChange upserts for a payload
\* The payload's row written whatever the store holds
RealtimeDocRemote(store, payload) ==
    LET mapped == MapRow(payload.row)
    IN  IF payload.eventType \in {"INSERT", "UPDATE"}
        THEN mapped
        ELSE [mapped EXCEPT !.isDeleted = TRUE]

\* The old row of a DELETE written without isDeleted: true
RealtimeDocNoTombstone(store, payload) ==
    LET mapped == MapRow(payload.row)
    IN  IF payload.eventType \in {"INSERT", "UPDATE"}
        THEN IF getById(store, mapped.id) = {}
             THEN mapped
             ELSE resolveConflict(store[mapped.id], mapped).winner
        ELSE [mapped EXCEPT !.isDeleted = FALSE]

RealtimeDoc(store, payload) ==
    LET mapped == MapRow(payload.row)
    IN  IF payload.eventType \in {"INSERT", "UPDATE"}
        THEN IF getById(store, mapped.id) = {}
             THEN mapped
             ELSE resolveConflict(store[mapped.id], mapped).winner
        ELSE [mapped EXCEPT !.isDeleted = TRUE]

\* handleRealtimeChange of the oldest payload, the call noted as rec
HandleRealtimeChangeNoted(rec) ==
    /\ events # <<>>
    /\ local' = upsert(local, RealtimeDoc(local, Head(events)), now)
    /\ events' = Tail(events)
    /\ owed' = IF watch \in {"offline", "unsent"} THEN owed \ {Head(events).row.id}
               ELSE Noted("ingested",
                          IF RealtimeDoc(local, Head(events)).val = Head(events).row.val
                          THEN owed \cup {Head(events).row.id} ELSE owed,
                          owed)
    /\ failed' = Noted("retry", failed \ {Head(events).row.id}, failed)
    /\ call' = rec
    /\ UNCHANGED <<now, flagVars, meta, remote, syncVars, watch, quiet, available, started,
                   dbVars, pullRange>>

HandleRealtimeChange == HandleRealtimeChangeNoted(call)

\* ------------------------------------------------ specifications
\* The writes of the application to the documents ids
AppWrites(ids) ==
    \/ \E id \in ids, v \in AppVals : Insert(id, v)
    \/ \E id \in ids, v \in AppVals : Upsert(id, v)
    \/ \E id \in ids, hard \in BOOLEAN : Remove(id, hard)

\* The writes of other clients to the rows ids
OtherWrites(ids) ==
    \/ \E id \in ids, v \in OtherVals : RemoteWrite(id, v)
    \/ \E id \in ids : RemoteRemove(id)

\* The steps of the forced syncs of the callers cs that go well
SyncSteps(cs) ==
    \/ \E c \in cs : PullSelect(c)
    \/ \E c \in cs : PullBulk(c)
    \/ \E c \in cs : PullPut(c)
    \/ \E c \in cs : PushRead(c)
    \/ \E c \in cs : PushUpsert(c)
    \/ \E c \in cs : PushDelete(c)
    \/ \E c \in cs : PushPut(c)
    \/ \E c \in cs : Finish(c)

\* The steps of the forced syncs of the callers cs that fail
FailSteps(cs) ==
    \/ \E c \in cs, code \in ErrorCodes : PullSelectFail(c, code)
    \/ \E c \in cs : PullBulkFail(c)
    \/ \E c \in cs, code \in ErrorCodes : PushUpsertFail(c, code)
    \/ \E c \in cs, code \in ErrorCodes : PushDeleteFail(c, code)

\* The forced syncs of the callers cs, between the writes of the application
\* and of other clients to the documents ids
Steps(cs, ids) ==
    \/ Tick
    \/ AppWrites(ids)
    \/ OtherWrites(ids)
    \/ GoOffline
    \/ GoOnline
    \/ SyncSteps(cs)
    \/ FailSteps(cs)

\* One forced sync at a time, the one the 'online' listener starts
Next == Steps({"listener"}, Ids)

\* No realtime payload reaches the client; no history is recorded
Spec == InitWith("none", FALSE) /\ [][Next]_vars

\* No realtime payload is waiting for its handler
Handled == events = <<>>

\* One document, with the realtime channel delivering the table's changes.
\* A payload is handled before the next remote change and the next sync
\* step; the application's writes and the clock can come before it.
OneId == {1}
NextRealtime ==
    \/ HandleRealtimeChange
    \/ Tick
    \/ AppWrites(OneId)
    \/ GoOffline
    \/ GoOnline
    \/ Handled /\ OtherWrites(OneId)
    \/ Handled /\ SyncSteps({"listener"})
    \/ Handled /\ FailSteps({"listener"})
SpecRealtime == InitWith("none", TRUE) /\ [][NextRealtime]_vars

\* The payload and the local copy it found noted at each call, between the
\* writes and the pull of the sync that opens the channel
HandlePayload ==
    HandleRealtimeChangeNoted([payload |-> Head(events),
                               localDoc |-> getById(local, Head(events).row.id)])
NextPayloads ==
    \/ HandlePayload
    \/ Tick
    \/ AppWrites(OneId)
    \/ GoOnline
    \/ Handled /\ OtherWrites(OneId)
    \/ Handled /\ PullSelect("listener")
    \/ Handled /\ PullBulk("listener")
    \/ Handled /\ PullPut("listener")
SpecPayloads == InitWith("none", TRUE) /\ [][NextPayloads]_vars

\* The same as Spec, each recording one history
SpecOffline == InitWith("offline", FALSE) /\ [][Next]_vars
SpecRetry == InitWith("retry", FALSE) /\ [][Next]_vars
SpecRange == InitWith("range", FALSE) /\ [][Next]_vars

\* A forced sync of the application overlapping the listener's
NextOverlap == Steps(Callers, OneId) \/ ForceSyncAll
SpecOverlap == InitWith("none", FALSE) /\ [][NextOverlap]_vars

\* ------------------------------------------------ network events
\* The forced syncs the 'online' listener starts, lastSync recorded
NextNetwork == Steps({"listener"}, OneId)
SpecNetwork == InitWith("network", FALSE) /\ [][NextNetwork]_vars

\* ------------------------------------------------ C15
\* C15: the 'online' event sets isOnline and starts a forced full sync;
\* the 'offline' event clears isOnline and nothing else: isSyncing, lastSync,
\* the channels, the local store, the sync metadata and the position of
\* every sync in flight stay as they are.
NetworkEvents ==
    [][/\ (~isOnline /\ isOnline') =>
              /\ isSyncing'
              /\ pc["listener"] = "idle" /\ pc'["listener"] = "pull_select"
       /\ (isOnline /\ ~isOnline') =>
              UNCHANGED <<isSyncing, lastSync, subscribed, leaked, local, meta,
                          pc, syncMeta, data, batch>>]_vars

\* The network went away while a forced sync that had already synced once
\* was between two requests
OfflineMidSync ==
    /\ ~isOnline
    /\ isSyncing
    /\ lastSync > 0
    /\ pc["listener"] \notin {"idle", "finish"}

\* ------------------------------------------------ startAllSync over the collections
\* What a failed or a successful pullCollection makes of the promise of
\* startCollectionSync, were it to reject: pullCollection catches every error
PullRejects(outcome) == IF outcome = "failed" THEN "rejected" ELSE "resolved"

\* pullCollection returns normally whatever its outcome (try / catch)
PullSettles(outcome) == "resolved"

\* startAllSync: Promise.all(collections.map(col => startCollectionSync(col)))
StartAllSync ==
    /\ \A col \in Collections : started[col].at \in {"idle", "done"}
    /\ started' = IF isSupabaseAvailable
                  THEN [col \in Collections |-> [NotStarted[col] EXCEPT !.at = "pull"]]
                  ELSE started
    /\ UNCHANGED <<now, flagVars, local, meta, remote, events, syncVars, watch, quiet,
                   call, available, dbVars, owed, failed, pullRange>>

\* startCollectionSync(col): pullCollection has returned with `outcome`;
\* the channel is subscribed and stored
CollectionPulled(col, outcome) ==
    /\ started[col].at = "pull"
    /\ started' = [started EXCEPT ![col] =
                       IF PullSettles(outcome) = "resolved"
                       THEN [@ EXCEPT !.at = "resolved", !.pulled = outcome, !.channel = TRUE]
                       ELSE [@ EXCEPT !.at = "rejected", !.pulled = outcome]]
    /\ UNCHANGED <<now, flagVars, local, meta, remote, events, syncVars, watch, quiet,
                   call, available, dbVars, owed, failed, pullRange>>

\* The first Promise.all has settled: the pushes start, or startAllSync
\* throws what a startCollectionSync rejected with
AllPulled ==
    /\ \A col \in Collections : started[col].at \in {"resolved", "rejected"}
    /\ started' = [col \in Collections |->
                       [started[col] EXCEPT !.at =
                           IF \E c \in Collections : started[c].at = "rejected"
                           THEN "done" ELSE "push"]]
    /\ UNCHANGED <<now, flagVars, local, meta, remote, events, syncVars, watch, quiet,
                   call, available, dbVars, owed, failed, pullRange>>

\* pushLocalChanges(col) has returned with `outcome` (try / catch)
CollectionPushed(col, outcome) ==
    /\ started[col].at = "push"
    /\ started' = [started EXCEPT ![col] = [@ EXCEPT !.at = "pushed", !.pushed = outcome]]
    /\ UNCHANGED <<now, flagVars, local, meta, remote, events, syncVars, watch, quiet,
                   call, available, dbVars, owed, failed, pullRange>>

\* The second Promise.all has settled: startAllSync returns
AllPushed ==
    /\ \A col \in Collections : started[col].at = "pushed"
    /\ started' = [col \in Collections |-> [started[col] EXCEPT !.at = "done"]]
    /\ lastSync' = now
    /\ UNCHANGED <<now, isOnline, isSyncing, subscribed, published, leaked, local, meta, remote, events, syncVars, watch, quiet,
                   call, available, dbVars, owed, failed, pullRange>>

Outcomes == {"ok", "failed"}

\* The collections with no table of their name in the schema: their select
\* is answered with an error
NoTable == {"users", "completions"}

\* The collections whose requests the network or the service may fail
Unreliable == {"households", "chores", "rewards"}

PullOutcomes(col) ==
    IF col \in NoTable THEN {"failed"}
    ELSE IF col \in Unreliable THEN Outcomes ELSE {"ok"}

\* A push with nothing to send returns without a request
PushOutcomes(col) == IF col \in NoTable \cup Unreliable THEN Outcomes ELSE {"ok"}

NextAll ==
    \/ StartAllSync
    \/ \E col \in Collections : \E outcome \in PullOutcomes(col) :
          CollectionPulled(col, outcome)
    \/ AllPulled
    \/ \E col \in Collections : \E outcome \in PushOutcomes(col) :
          CollectionPushed(col, outcome)
    \/ AllPushed

InitAll == InitWith("none", FALSE) /\ isOnline
SpecAll == InitAll /\ [][NextAll]_vars

\* ------------------------------------------------ C14
\* C14: when the pull or the push of one collection has failed, every
\* other collection has all the same completed its pull, got its channel
\* subscribed and had its push attempted by the time startAllSync is over.
Over == \A col \in Collections : started[col].at = "done"

FailureIsolated ==
    Over => \A col \in Collections :
                /\ started[col].pulled # "none"
                /\ started[col].channel
                /\ started[col].pushed # "none"

\* startAllSync is over, the pull of one collection and the push of another
\* have failed, and a third collection has pulled and pushed
OneFailedOthersDone ==
    /\ Over
    /\ \E a, b, c \in Collections :
          /\ a # b /\ b # c /\ a # c
          /\ started[a].pulled = "failed"
          /\ started[b].pushed = "failed"
          /\ started[c].pulled = "ok" /\ started[c].channel /\ started[c].pushed = "ok"

\* ------------------------------------------------ local-only mode
\* The credentials are unset: the application writes, the network comes and
\* goes, and every entry point of the sync layer is called
NextLocalOnly ==
    \/ Tick
    \/ AppWrites(Ids)
    \/ GoOffline
    \/ GoOnline
    \/ ForceSyncAll
    \/ \E c \in Callers : Finish(c)
    \/ StartAllSync
    \/ \E c \in Callers : StartCollectionSync(c)
    \/ \E c \in Callers : PushLocalChanges(c)
    \/ StopAllSync

InitLocalOnly == InitState("none", FALSE, FALSE)
SpecLocalOnly == InitLocalOnly /\ [][NextLocalOnly]_vars

\* ------------------------------------------------ C16
\* C16: with the credentials unset, the local store changes only as insert,
\* upsert and remove change it, and no call of the sync layer sends a
\* request, opens a channel or changes the local records or the sync
\* metadata.
NoRequest == \A c \in Callers : pc[c] \in {"idle", "finish"}

LocalWritten ==
    \/ \E id \in Ids, v \in AppVals :
          local' = insert(local, [id |-> id, val |-> v, isDeleted |-> FALSE], now)
    \/ \E id \in DOMAIN local, v \in AppVals :
          local' = upsert(local, [local[id] EXCEPT !.val = v], now)
    \/ \E id \in DOMAIN local, hard \in BOOLEAN : local' = remove(local, id, hard, now)

LocalOnlyMode ==
    [][/\ NoRequest'
       /\ ~subscribed' /\ leaked' = 0 /\ started' = NotStarted
       /\ events' = <<>> /\ remote' = remote
       /\ meta' = meta
       /\ local' # local => (LocalWritten /\ pc' = pc)]_vars

\* A forced sync has returned from startAllSync without a request, while the
\* local store holds a record and a soft-deleted one
ForcedSyncLocalOnly ==
    /\ ~available
    /\ \E c \in Callers : pc[c] = "finish"
    /\ \E id \in DOMAIN local : local[id].isDeleted
    /\ \E id \in DOMAIN local : ~local[id].isDeleted

\* ------------------------------------------------ C22
\* C22: once startAllSync has completed, online and with the remote
\* configured, getSyncStatus().activeChannels holds exactly 6 channels.
activeChannels == {col \in Collections : started[col].channel}

SixChannels == (Over /\ lastSync > 0) => Cardinality(activeChannels) = 6

\* startAllSync has completed and every collection it lists has a channel
ChannelPerCollection ==
    /\ Over
    /\ lastSync > 0
    /\ activeChannels = Collections

\* ------------------------------------------------ channels
\* supabase.channel(name) makes a channel of its own at every call, and
\* startCollectionSync stores it under the collection's key: a channel
\* stored there before is subscribed still, and syncState.channels has lost
\* it. The application forces syncs and stops them; one document.
NextChannels ==
    \/ Tick
    \/ OtherWrites(OneId)
    \/ ForceSyncAll /\ leaked < MaxLeaked
    \/ SyncSteps({"app"})
    \/ StopAllSync
    \/ HandleRealtimeChange

InitChannels == InitState("channels", TRUE, TRUE) /\ isOnline
SpecChannels == InitChannels /\ [][NextChannels]_vars

\* ------------------------------------------------ C13
\* C13: when stopAllSync has completed, no channel opened by an earlier
\* startAllSync or forceSyncAll is subscribed, syncState.channels is empty
\* and no payload is on its way to a callback; a second stopAllSync changes
\* nothing.
StopTearsDownAll ==
    [][StopAllSync =>
          /\ ~subscribed' /\ leaked' = 0 /\ events' = <<>>
          /\ ~subscribed => UNCHANGED vars]_vars

\* syncState.channels is empty and a channel is subscribed still
ChannelLeftOpen == ~subscribed /\ leaked > 0 /\ pc["app"] = "idle"

\* ------------------------------------------------ a client that stays online
\* The application creates and edits document 1, another client row 2; the
\* application forces a sync again and again; each realtime payload is
\* handled before the next step, so that none is lost; once quiet holds
\* nobody writes and no request fails.
AppIds == {1}
OtherIds == Ids \ AppIds

Quiesce ==
    /\ ~quiet
    /\ quiet' = TRUE
    /\ UNCHANGED <<now, flagVars, local, meta, remote, events, syncVars, watch, call,
                   available, started, dbVars, owed, failed, pullRange>>

LiveSync == Handled /\ (ForceSyncAll \/ SyncSteps({"app"}))

NextLive ==
    \/ HandleRealtimeChange
    \/ Handled /\ Tick
    \/ Handled /\ ~quiet /\ AppWrites(AppIds)
    \/ Handled /\ ~quiet /\ OtherWrites(OtherIds)
    \/ Handled /\ ~quiet /\ FailSteps({"app"})
    \/ Handled /\ Quiesce
    \/ LiveSync

InitLive == InitWith("none", TRUE) /\ isOnline

SpecLive ==
    /\ InitLive
    /\ [][NextLive]_vars
    /\ WF_vars(HandleRealtimeChange)
    /\ WF_vars(LiveSync)

\* ------------------------------------------------ C3
\* C3: once the writes have stopped and pull, push and realtime delivery
\* keep succeeding, the local record and the remote row of every id come to
\* hold the same domain field values, or to be both deleted, and stay so.
LocalLive(id) == id \in DOMAIN local /\ ~FieldOr(local[id], "isDeleted", FALSE)
RemoteLive(id) == id \in DOMAIN remote /\ ~remote[id]._deleted

Agree ==
    \A id \in Ids :
        IF LocalLive(id) /\ RemoteLive(id)
        THEN local[id].val = remote[id].val
        ELSE ~LocalLive(id) /\ ~RemoteLive(id)

EventuallyConsistent == quiet ~> []Agree

\* ------------------------------------------------ calls of resolveConflict
\* The documents a caller can pass: id, updatedAt and modified are required
\* by SyncDocument, the domain field val and isDeleted are optional
NoField == [f \in {} |-> 0]
OptionalVal == {NoField} \cup {[val |-> v] : v \in Vals}
OptionalIsDeleted == {NoField} \cup {[isDeleted |-> b] : b \in BOOLEAN}

SyncDocuments ==
    {Spread(Spread([id |-> i, updatedAt |-> u, modified |-> m], v), d) :
        i \in Ids, u \in Times, m \in Times, v \in OptionalVal, d \in OptionalIsDeleted}

ResolveCalls ==
    {[fn |-> "resolveConflict", local |-> l, remote |-> r, returned |-> FALSE] :
        l \in SyncDocuments, r \in SyncDocuments}

InitResolve ==
    /\ call \in ResolveCalls
    /\ now = 1
    /\ leaked = 0
    /\ lastSync = 0
    /\ available = TRUE
    /\ started = NotStarted
    /\ dbInstance = "open"
    /\ NoLedger
    /\ isOnline = TRUE
    /\ isSyncing = FALSE
    /\ subscribed = FALSE
    /\ published = FALSE
    /\ local = EmptyStore
    /\ meta = NoMeta
    /\ remote = EmptyStore
    /\ events = <<>>
    /\ pc = [c \in Callers |-> "idle"]
    /\ syncMeta = [c \in Callers |-> NoMeta]
    /\ data = [c \in Callers |-> NoDocs]
    /\ batch = [c \in Callers |-> NoDocs]
    /\ watch = "none"
    /\ quiet = FALSE
    /\ owed = {}
    /\ failed = {}
    /\ pullRange = -1

\* resolveConflict(local, remote) returns or throws
ResolveConflict ==
    /\ call.fn = "resolveConflict"
    /\ ~call.returned
    /\ call' = Spread(call, [returned |-> TRUE,
                             result |-> resolveConflict(call.local, call.remote)])
    /\ UNCHANGED <<now, flagVars, local, meta, remote, events, syncVars, watch, quiet,
                   available, started, dbVars, owed, failed, pullRange>>

NextResolve == ResolveConflict
SpecResolve == InitResolve /\ [][NextResolve]_vars

Returned == call.fn = "resolveConflict" /\ call.returned
SameId == call.local.id = call.remote.id

\* ------------------------------------------------ C9
\* C9: for a local and a remote document with the same id and different
\* modified, resolveConflict returns the one with the larger modified,
\* unchanged, with source 'local' or 'remote' accordingly; the winner's
\* modified is the maximum of the two.
LastWriteWins ==
    (Returned /\ SameId /\ call.local.modified # call.remote.modified) =>
        /\ "error" \notin DOMAIN call.result
        /\ call.result.winner.modified = Max(call.local.modified, call.remote.modified)
        /\ IF call.local.modified > call.remote.modified
           THEN call.result.winner = call.local /\ call.result.source = "local"
           ELSE call.result.winner = call.remote /\ call.result.source = "remote"

\* The remote document is newer and differs from the local one in a domain field
NewerRemoteWon ==
    /\ Returned /\ SameId
    /\ call.remote.modified > call.local.modified
    /\ "val" \in DOMAIN call.local /\ "val" \in DOMAIN call.remote
    /\ call.local.val # call.remote.val
    /\ call.result.source = "remote"

\* ------------------------------------------------ C10
\* C10: for a local and a remote document with the same id and the same
\* modified, resolveConflict returns source 'merged' and a winner that has
\* remote's value in every field remote has (updatedAt apart), local's
\* value in the fields only local has, remote's modified, and the larger
\* of the two updatedAt.
TieBreakMerge ==
    (Returned /\ SameId /\ call.local.modified = call.remote.modified) =>
        /\ "error" \notin DOMAIN call.result
        /\ call.result.source = "merged"
        /\ LET w == call.result.winner
           IN  /\ DOMAIN w = DOMAIN call.local \cup DOMAIN call.remote
               /\ \A f \in DOMAIN call.remote \ {"updatedAt"} : w[f] = call.remote[f]
               /\ \A f \in DOMAIN call.local \ DOMAIN call.remote : w[f] = call.local[f]
               /\ w.modified = call.remote.modified
               /\ w.updatedAt = Max(call.local.updatedAt, call.remote.updatedAt)

\* A tie in which the two sides differ in a domain field, local has a field
\* remote lacks, and local's updatedAt is the larger
TieMerged ==
    /\ Returned /\ SameId
    /\ call.local.modified = call.remote.modified
    /\ "val" \in DOMAIN call.local /\ "val" \in DOMAIN call.remote
    /\ call.local.val # call.remote.val
    /\ "isDeleted" \in DOMAIN call.local \ DOMAIN call.remote
    /\ call.local.updatedAt > call.remote.updatedAt
    /\ call.result.source = "merged"

\* ------------------------------------------------ calls of mergeDocuments
\* The state in which the pure function of `calls` is about to be called
InitCalls(calls) ==
    /\ call \in calls
    /\ now = 1
    /\ leaked = 0
    /\ lastSync = 0
    /\ available = TRUE
    /\ started = NotStarted
    /\ dbInstance = "open"
    /\ NoLedger
    /\ isOnline = TRUE
    /\ isSyncing = FALSE
    /\ subscribed = FALSE
    /\ published = FALSE
    /\ local = EmptyStore
    /\ meta = NoMeta
    /\ remote = EmptyStore
    /\ events = <<>>
    /\ pc = [c \in Callers |-> "idle"]
    /\ syncMeta = [c \in Callers |-> NoMeta]
    /\ data = [c \in Callers |-> NoDocs]
    /\ batch = [c \in Callers |-> NoDocs]
    /\ watch = "none"
    /\ quiet = FALSE
    /\ owed = {}
    /\ failed = {}
    /\ pullRange = -1

\* The lists mergeDocuments is called with hold one document per id, in any
\* order: the local ones as the application stamped them, the remote ones
\* written by other clients
LocalDocuments ==
    {[id |-> i, val |-> v, updatedAt |-> m, modified |-> m] :
        i \in Ids, v \in AppVals, m \in Times}
RemoteDocuments ==
    {[id |-> i, val |-> v, updatedAt |-> 1, modified |-> m] :
        i \in Ids, v \in OtherVals, m \in Times}

\* The sequences of documents of `docs` with distinct ids
ListsOf(docs) ==
    UNION {{q \in [1..n -> docs] : \A i, j \in 1..n : q[i].id = q[j].id => i = j} :
              n \in 0..NumIds}

\* A list as getAll returns the local set: in primary-key order
InKeyOrder(docs) == \A i, j \in 1..Len(docs) : i < j => docs[i].id < docs[j].id

\* The local set in key order, the remote list in any order
MergeCalls ==
    {[fn |-> "mergeDocuments", local |-> l, remote |-> r, returned |-> FALSE] :
        l \in {q \in ListsOf(LocalDocuments) : InKeyOrder(q)},
        r \in ListsOf(RemoteDocuments)}

\* mergeDocuments(local, remote) returns or throws
MergeDocuments ==
    /\ call.fn = "mergeDocuments"
    /\ ~call.returned
    /\ call' = Spread(call, [returned |-> TRUE,
                             result |-> mergeDocuments(call.local, call.remote)])
    /\ UNCHANGED <<now, flagVars, local, meta, remote, events, syncVars, watch, quiet,
                   available, started, dbVars, owed, failed, pullRange>>

\* mergeDocuments(merged, remote) on the list a first call returned
MergeAgain ==
    /\ call.fn = "mergeDocuments"
    /\ call.returned
    /\ "returns" \in DOMAIN call.result
    /\ "again" \notin DOMAIN call
    /\ call' = Spread(call, [again |-> mergeDocuments(call.result.returns, call.remote)])
    /\ UNCHANGED <<now, flagVars, local, meta, remote, events, syncVars, watch, quiet,
                   available, started, dbVars, owed, failed, pullRange>>

NextMerge == ResolveConflict \/ MergeDocuments \/ MergeAgain
InitMerge == InitCalls(ResolveCalls) \/ InitCalls(MergeCalls)
SpecMerge == InitMerge /\ [][NextMerge]_vars

Merged == call.fn = "mergeDocuments" /\ call.returned
Thrown(result) == "error" \in DOMAIN result

\* ------------------------------------------------ C11
\* C11: for a local and a remote document with different ids
\* resolveConflict throws and returns no winner; mergeDocuments never has
\* resolveConflict throw, it resolves only documents of the same id.
IdMismatchFailsLoudly ==
    /\ (Returned /\ ~SameId) =>
           (Thrown(call.result) /\ "winner" \notin DOMAIN call.result)
    /\ Merged => ~Thrown(call.result)

\* resolveConflict has thrown on documents with different ids
IdMismatchThrown == Returned /\ ~SameId /\ Thrown(call.result)

\* ------------------------------------------------ bulkUpsert calls
\* The batches: documents of other clients as a pull maps them
Batches == UNION {[1..n -> RemoteDocuments] : n \in 0..NumIds}

BulkCalls == {[fn |-> "bulkUpsert", docs |-> docs] : docs \in Batches}

\* bulkUpsert(collection, call.docs), called a first and a second time; the
\* store before the first call and after each call is kept in the call
BulkUpsert ==
    /\ call.fn = "bulkUpsert"
    /\ "twice" \notin DOMAIN call
    /\ LET after == bulkUpsert(local, call.docs, now)
       IN  /\ local' = after
           /\ call' = Spread(call, IF "once" \in DOMAIN call
                                   THEN [twice |-> after]
                                   ELSE [before |-> local, once |-> after])
    /\ UNCHANGED <<now, flagVars, meta, remote, events, syncVars, watch, quiet,
                   available, started, dbVars, owed, failed, pullRange>>

\* The application writes a document, then the batch is applied twice while
\* the clock runs
NextBulk ==
    \/ Tick
    \/ "once" \notin DOMAIN call /\ AppWrites(OneId)
    \/ BulkUpsert

SpecBulk == InitCalls(BulkCalls) /\ [][NextBulk]_vars

\* ------------------------------------------------ C19
\* C19: a batch applied a second time leaves the store with the same
\* records as after the first time, equal in every field but modified and
\* updatedAt, which have not moved back; the documents of one call carry
\* one modified.
Stamps == {"modified", "updatedAt"}

OneStamp(store) ==
    \A i, j \in SeqIds(call.docs) : store[i].modified = store[j].modified

SameButStamps(d, e) ==
    /\ DOMAIN d = DOMAIN e
    /\ \A f \in DOMAIN d \ Stamps : d[f] = e[f]
    /\ \A f \in Stamps : d[f] <= e[f]

BulkUpsertIdempotent ==
    /\ "once" \in DOMAIN call => OneStamp(call.once)
    /\ "twice" \in DOMAIN call =>
          /\ OneStamp(call.twice)
          /\ call.twice = local
          /\ DOMAIN call.twice = DOMAIN call.once
          /\ \A id \in DOMAIN call.once : SameButStamps(call.once[id], call.twice[id])

\* A batch of two documents, one of them over a record the application had
\* stored, has been applied twice, the second time later than the first
BatchAppliedTwice ==
    /\ call.fn = "bulkUpsert"
    /\ "twice" \in DOMAIN call
    /\ Cardinality(SeqIds(call.docs)) = NumIds
    /\ \E id \in DOMAIN call.before :
          /\ call.before[id].isDeleted
          /\ call.twice[id].modified > call.once[id].modified

\* ------------------------------------------------ C20
\* C20: mergeDocuments returns one document for each id of either list and
\* no other: the winner of resolveConflict for an id of both lists, the only
\* copy otherwise; merging the result with the remote list again returns the
\* same documents.
Elements(docs) == {docs[i] : i \in 1..Len(docs)}
WithId(docs, id) == CHOOSE d \in Elements(docs) : d.id = id

MergeIsUnionById ==
    Merged =>
        /\ "returns" \in DOMAIN call.result
        /\ LET merged == call.result.returns
               ids == SeqIds(call.local) \cup SeqIds(call.remote)
           IN  /\ SeqIds(merged) = ids
               /\ Len(merged) = Cardinality(ids)
               /\ \A id \in ids :
                     WithId(merged, id) =
                         IF id \in SeqIds(call.local) \cap SeqIds(call.remote)
                         THEN resolveConflict(WithId(call.local, id),
                                              WithId(call.remote, id)).winner
                         ELSE WithId(call.local \o call.remote, id)
               /\ "again" \in DOMAIN call =>
                     /\ "returns" \in DOMAIN call.again
                     /\ Elements(call.again.returns) = Elements(merged)
                     /\ Len(call.again.returns) = Len(merged)

\* A local-only document, a newer remote document of an id of both lists:
\* merged, and merged again
MergedTwice ==
    /\ Merged
    /\ "again" \in DOMAIN call
    /\ Len(call.local) = NumIds
    /\ Len(call.remote) = 1
    /\ call.remote[1].modified > WithId(call.local, call.remote[1].id).modified

\* ------------------------------------------------ steps of one invocation
\* The step in which invocation c leaves the position label
Leaves(c, label) == pc[c] = label /\ pc'[c] # label

\* pushLocalChanges of invocation c evaluates getModifiedSince(lastPushTimestamp)
PushEvaluates(c) == Leaves(c, "push_read") /\ isOnline

\* The ids pushLocalChanges would put in its batch in this state
PushBatchIds == SeqIds(getModifiedSince(local, LastPushOf(meta)))

\* ------------------------------------------------ C1
\* C1: every record written locally while offline and still stored is in the
\* batch getModifiedSince(lastPushTimestamp) of the push of the forced sync
\* that the transition to online triggers, whatever sync metadata is stored.
OfflineWritesPushed ==
    [][PushEvaluates("listener") => (owed \cap DOMAIN local) \subseteq PushBatchIds]_vars

\* An offline write is about to be left out of the push the 'online'
\* listener started
OfflineWriteSkipped ==
    /\ pc["listener"] = "push_read"
    /\ isOnline
    /\ (owed \cap DOMAIN local) \ PushBatchIds # {}

\* ------------------------------------------------ C2
\* C2: lastPullTimestamp and lastPushTimestamp of the stored _sync_meta
\* record never decrease, over any sequence of pulls and pushes, failed ones
\* included.
WatermarksNeverDecrease ==
    [][/\ LastPullOf(meta') >= LastPullOf(meta)
       /\ LastPushOf(meta') >= LastPushOf(meta)]_vars

\* ------------------------------------------------ C4
\* C4: a failed upsert or delete batch of pushLocalChanges leaves
\* lastPushTimestamp as it was, and the next pushLocalChanges has every
\* record of the failed push that is still stored in its batch.
PushFails(c) == pc[c] \in {"push_upsert", "push_delete"} /\ pc'[c] = "finish"

FailedPushRetried ==
    [][\A c \in Callers :
        /\ PushFails(c) => meta' = meta
        /\ PushEvaluates(c) => (failed \cap DOMAIN local) \subseteq PushBatchIds]_vars

\* ------------------------------------------------ C5
\* C5: a pull whose select fails leaves the sync metadata and every local
\* record unchanged, and the next pull asks for the same range, the rows
\* with _modified above the lastPullTimestamp the failed pull used.
\* pullCollection of invocation c returns before its bulkUpsert is done
PullReturnsEarly(c) == pc[c] \in {"pull_select", "pull_bulk"} /\ pc'[c] = "push_read"

FailedPullRetried ==
    [][\A c \in Callers :
        /\ PullReturnsEarly(c) => (meta' = meta /\ local' = local)
        /\ (Leaves(c, "pull_select") /\ pullRange # -1)
              => LastPullOf(meta) = pullRange]_vars

\* ------------------------------------------------ C6
\* C6: a successful push of a soft-deleted record does not hard-delete the
\* remote row, and the tombstone is still stored locally when
\* lastPushTimestamp advances.
Tombstones(c) == SeqIds(DocsToDelete(batch[c]))

TombstonePropagation ==
    [][\A c \in Callers :
        /\ (Leaves(c, "push_delete") /\ pc'[c] = "push_put")
              => (Tombstones(c) \cap DOMAIN remote) \subseteq DOMAIN remote'
        /\ Leaves(c, "push_put") => local' = local]_vars

\* A soft-deleted record whose row is gone after the push
TombstoneRowGone ==
    \E c \in Callers :
        /\ pc[c] = "push_put"
        /\ \E id \in Tombstones(c) : id \in DOMAIN local /\ id \notin DOMAIN remote

\* ------------------------------------------------ C7
\* C7: for every id, the modified value of the stored document never
\* decreases, whichever of insert, upsert, bulkUpsert, soft remove, pull and
\* realtime handling writes it, also when the remote record written has a
\* smaller modified than the local one.
ModifiedNeverDecreases ==
    [][\A id \in DOMAIN local \cap DOMAIN local' :
        local'[id].modified >= local[id].modified]_vars

\* The local copy holds what another client wrote, with a modified above the
\* _modified of the row it came from
OlderRemoteIngested ==
    \E id \in DOMAIN local \cap DOMAIN remote :
        /\ local[id].val \in OtherVals
        /\ local[id].val = remote[id].val
        /\ remote[id]._modified < local[id].modified

\* ------------------------------------------------ C8
\* C8: a soft-deleted record is returned neither by getAll nor by query with
\* any predicate, while it stays in the object store.
\* The predicates on the stored documents
Predicates == [StoredDocs(local) -> BOOLEAN]

SoftDeletedNotReturned ==
    \A id \in DOMAIN local :
        FieldOr(local[id], "isDeleted", FALSE) =>
            /\ id \notin SeqIds(getAll(local))
            /\ \A p \in Predicates : id \notin SeqIds(query(local, p))

\* A soft-deleted record in the object store
SoftDeletedStored ==
    \E id \in DOMAIN local : FieldOr(local[id], "isDeleted", FALSE)

\* ------------------------------------------------ db/indexeddb.ts: the connection
\* initIndexedDB: the instance kept, or openDB
initIndexedDB(instance) == IF instance # "null" THEN instance ELSE "open"

\* getDB: the instance, opened when there is none
getDB(instance) == IF instance = "null" THEN initIndexedDB(instance) ELSE instance

\* A request on the connection `db`: IndexedDB refuses it on a connection
\* that is not open
Request(db) == IF db = "open" THEN "ok" ELSE "InvalidStateError"

\* closeDB
CloseDB ==
    /\ dbInstance' = "null"
    /\ UNCHANGED <<now, flagVars, local, meta, remote, events, syncVars, watch, quiet,
                   call, available, started, sqlVars, owed, failed, pullRange>>

\* initIndexedDB called by the application: the explicit reopening
InitIndexedDB ==
    /\ dbInstance' = initIndexedDB(dbInstance)
    /\ UNCHANGED <<now, flagVars, local, meta, remote, events, syncVars, watch, quiet,
                   call, available, started, sqlVars, owed, failed, pullRange>>

\* One CRUD call from `const db = await getDB()` to its return: `store` is
\* the object store if the request succeeds; the call keeps whether the
\* connection was closed when it was made
Crud(fn, store) ==
    LET db == getDB(dbInstance)
    IN  /\ dbInstance' = db
        /\ local' = IF Request(db) = "ok" THEN store ELSE local
        /\ call' = [fn |-> fn, closed |-> dbInstance = "null", result |-> Request(db)]
        /\ UNCHANGED <<now, flagVars, meta, remote, events, syncVars, watch, quiet,
                       available, started, sqlVars, owed, failed, pullRange>>

CrudInsert(id, v) ==
    Crud("insert", insert(local, [id |-> id, val |-> v, isDeleted |-> FALSE], now))

CrudUpsert(id, v) ==
    /\ id \in DOMAIN local
    /\ Crud("upsert", upsert(local, [local[id] EXCEPT !.val = v], now))

CrudGetById(id) == Crud("getById", local)

CrudRemove(id, hard) == Crud("remove", remove(local, id, hard, now))

\* The application calls the CRUD operations, closes the database and
\* reopens it, in any order
NextClosed ==
    \/ Tick
    \/ CloseDB
    \/ InitIndexedDB
    \/ \E id \in Ids, v \in AppVals : CrudInsert(id, v)
    \/ \E id \in Ids, v \in AppVals : CrudUpsert(id, v)
    \/ \E id \in Ids : CrudGetById(id)
    \/ \E id \in Ids, hard \in BOOLEAN : CrudRemove(id, hard)

InitClosed == InitCalls({NoCall})
SpecClosed == InitClosed /\ [][NextClosed]_vars

\* ------------------------------------------------ C21
\* C21: a CRUD call made while the database is closed fails with an error.
ClosedStoreFails ==
    (call # NoCall /\ call.closed) => call.result # "ok"

\* An insert made after closeDB, with no reopening, has stored its record
InsertAfterClose ==
    /\ call # NoCall
    /\ call.fn = "insert"
    /\ call.closed
    /\ call.result = "ok"
    /\ local # EmptyStore

\* ------------------------------------------------ pushLocalChanges calls
\* docs.map(doc => doc.id)
IdsOf(docs) == [i \in 1..Len(docs) |-> docs[i].id]

\* The calls of pushLocalChanges, each after the application's writes, the
\* store and lastPush each call read and the requests it has sent noted
PushReadCall(c) ==
    PushReadNoted(c, [store |-> local, lastPush |-> LastPushOf(meta), isOnline |-> isOnline,
                      requests |-> <<>>])
PushUpsertCall(c) ==
    PushUpsertNoted(c, [call EXCEPT !.requests =
                          Append(@, [op |-> "upsert",
                                     ids |-> IdsOf(DocsToUpsert(batch[c]))])])
PushDeleteCall(c) ==
    PushDeleteNoted(c, [call EXCEPT !.requests =
                          Append(@, [op |-> "delete", ids |-> IdsOf(DocsToDelete(batch[c]))])])
TwoIds == {1, 2}
NextPushes ==
    \/ pc["listener"] = "idle" /\ Tick
    \/ pc["listener"] = "idle" /\ AppWrites(TwoIds)
    \/ GoOffline
    \/ PushLocalChanges("listener")
    \/ PushReadCall("listener")
    \/ PushUpsertCall("listener")
    \/ PushDeleteCall("listener")
    \/ \E code \in ErrorCodes : PushUpsertFail("listener", code)
    \/ \E code \in ErrorCodes : PushDeleteFail("listener", code)
    \/ PushPut("listener")
    \/ Finish("listener")
SpecPushes == InitWith("none", FALSE) /\ [][NextPushes]_vars

\* ------------------------------------------------ C30
\* The stored records a noted push had to send
Qualifying(rec) == {doc \in StoredDocs(rec.store) : doc.modified > rec.lastPush}

\* The requests of a noted push that carry the id, as <<request, position>>
SentAt(rec, id) ==
    {at \in (1..Len(rec.requests)) \X Ids :
        /\ at[2] \in 1..Len(rec.requests[at[1]].ids)
        /\ rec.requests[at[1]].ids[at[2]] = id}

\* The requests sent so far are one upsert at most, then one delete at
\* most, none empty; each carries records that qualified, once, the upsert
\* the records not deleted and the delete the soft-deleted ones; nothing was
\* sent when the push found itself offline or no record qualified
Partitioned(rec) ==
    /\ \A i \in 1..Len(rec.requests) : rec.requests[i].ids # <<>>
    /\ \A i, j \in 1..Len(rec.requests) :
          i < j => rec.requests[i].op = "upsert" /\ rec.requests[j].op = "delete"
    /\ \A id \in Ids :
          \A at \in SentAt(rec, id) :
              /\ SentAt(rec, id) = {at}
              /\ \E doc \in Qualifying(rec) :
                    /\ doc.id = id
                    /\ rec.requests[at[1]].op =
                          IF FieldOr(doc, "isDeleted", FALSE) THEN "delete" ELSE "upsert"
    /\ (~rec.isOnline \/ Qualifying(rec) = {}) => rec.requests = <<>>

\* C30: a push sends every stored record with modified > lastPushTimestamp
\* in exactly one request, the records not deleted in the upsert and the ids
\* of the soft-deleted ones in the delete, the upsert first; offline, or
\* with no such record, it sends nothing and leaves _sync_meta as it was.
PushPartitions ==
    [][\A c \in Callers :
        /\ call' # NoCall => Partitioned(call')
        /\ (pc[c] = "push_put" /\ pc'[c] # pc[c]) =>
              \A doc \in Qualifying(call) : SentAt(call, doc.id) # {}
        /\ (pc[c] = "push_read" /\ pc'[c] # pc[c]
               /\ (~isOnline \/ getModifiedSince(local, LastPushOf(meta)) = <<>>)) =>
              /\ pc'[c] = "finish"
              /\ meta' = meta
              /\ remote' = remote]_vars

\* A push has sent one record in its upsert and the id of another in its
\* delete, and has written lastPushTimestamp
UpsertThenDelete ==
    /\ call # NoCall
    /\ Len(call.requests) = 2
    /\ call.requests[1].op = "upsert"
    /\ call.requests[2].op = "delete"
    /\ LastPushOf(meta) > call.lastPush
    /\ pc["listener"] \in {"finish", "idle"}

\* ------------------------------------------------ C31
\* The forced syncs of the 'online' listener over one document, the ids
\* whose latest write of the application no request has sent noted in owed
SpecUnsent == InitWith("unsent", FALSE) /\ [][NextNetwork]_vars

\* C31: a record whose latest write of the application no push request has
\* sent has modified > lastPushTimestamp, also when it was written while a
\* push or a pull was between its steps.
UnsentAboveWatermark ==
    \A id \in owed \cap DOMAIN local : local[id].modified > LastPushOf(meta)

\* The push watermark stands at or above a record the application wrote
\* after the last push had read its batch: no later push will send it
UnsentBelowWatermark ==
    /\ pc["listener"] \in {"finish", "idle"}
    /\ \E id \in owed \cap DOMAIN local :
          /\ local[id].val \in AppVals
          /\ local[id].modified <= LastPushOf(meta)

\* ------------------------------------------------ C32
\* SpecRealtime with the ids noted in owed that a pull or a realtime payload
\* has written and the application has not written since
SpecIngested == InitWith("ingested", TRUE) /\ [][NextRealtime]_vars

\* C32: a record that a pull or a realtime payload has written and the
\* application has not written since is in the batch of no later push.
NoEcho ==
    [][PushEvaluates("listener") => owed \cap PushBatchIds = {}]_vars

\* A push is about to read a batch that holds a record another client
\* wrote and the application never touched
EchoInBatch ==
    /\ pc["listener"] = "push_read"
    /\ isOnline
    /\ \E id \in owed \cap PushBatchIds :
          /\ local[id].val \in OtherVals
          /\ id \in DOMAIN remote
          /\ remote[id].val = local[id].val

\* ------------------------------------------------ C29
\* C29: in startAllSync the pull of a collection has returned before its
\* push starts, and its push has returned before its channel is opened.
PullPushSubscribe ==
    \A col \in Collections :
        /\ started[col].at \in {"push", "pushed"} => started[col].pulled # "none"
        /\ started[col].channel => started[col].pushed # "none"

\* The channel of a collection is open and stored while no push of
\* startAllSync has started
SubscribedBeforePush ==
    \E col \in Collections :
        /\ started[col].channel
        /\ started[col].pulled = "ok"
        /\ \A c \in Collections : started[c].at \in {"pull", "resolved"}

\* ------------------------------------------------ pullCollection calls
\* The forced syncs of the 'online' listener over one document, the batch
\* of each bulkUpsert of a pull noted with the _sync_meta record the pull
\* read, the store it found and the store it left
PullBatch(c) ==
    PullBulkNoted(c, [rows |-> data[c], syncMeta |-> syncMeta[c], before |-> local,
                      after |-> bulkUpsert(local, MapRows(data[c]), now), at |-> now])
NextPulls ==
    \/ Tick
    \/ AppWrites(OneId)
    \/ OtherWrites(OneId)
    \/ GoOffline
    \/ GoOnline
    \/ PullSelect("listener")
    \/ PullBatch("listener")
    \/ PullPut("listener")
    \/ PushRead("listener")
    \/ PushUpsert("listener")
    \/ PushDelete("listener")
    \/ PushPut("listener")
    \/ Finish("listener")
    \/ FailSteps({"listener"})
SpecPulls == InitWith("none", FALSE) /\ [][NextPulls]_vars

\* The fields of a document that are not sync bookkeeping
DomainFields(doc) == [val |-> doc.val, isDeleted |-> FieldOr(doc, "isDeleted", FALSE)]

\* ------------------------------------------------ C27
\* The step is the bulkUpsert of the pull of c
PullBulkStep(c) == pc[c] = "pull_bulk" /\ pc'[c] = "pull_put"

MetaAfterBatch ==
    [][\A c \in Callers :
        (pc[c] \in {"pull_select", "pull_bulk", "pull_put"} /\ pc'[c] # pc[c]) =>
            \/ meta' = meta
            \/ /\ pc[c] = "pull_put"
               /\ call # NoCall
               /\ call.syncMeta = syncMeta[c]
               /\ call.rows # <<>>
               /\ SeqIds(call.rows) \subseteq DOMAIN call.after
               /\ LastPullOf(meta') = now]_vars

\* A pull has written its batch and then lastPullTimestamp
PulledAndStamped ==
    /\ call # NoCall
    /\ call.rows # <<>>
    /\ LastPullOf(meta) = call.at
    /\ SeqIds(call.rows) \subseteq DOMAIN local
    /\ pc["listener"] # "pull_put"

\* ------------------------------------------------ C25
\* The step is handleRealtimeChange of the oldest payload
RealtimeStep == events # <<>> /\ events' = Tail(events)

HandleClean ==
    HandleRealtimeChangeNoted([payload |-> Head(events),
                               localDoc |-> getById(local, Head(events).row.id),
                               clean |-> Head(events).row.id \in owed])
NextSkew ==
    \/ HandleClean
    \/ Tick
    \/ AppWrites(OneId)
    \/ GoOnline
    \/ Handled /\ \E id \in OneId, v \in Vals, t \in ServerClock(remote) :
                     RemoteWriteAt(id, v, t)
    \/ Handled /\ PullSelect("listener")
    \/ Handled /\ PullBulk("listener")
    \/ Handled /\ PullPut("listener")
SpecSkew == InitWith("ingested", TRUE) /\ [][NextSkew]_vars

\* C33: a realtime UPDATE for a record that the application has not
\* written since the sync last wrote it leaves the record with the domain
\* fields of the payload's row, whatever the server's _modified is against
\* the modified stamped when the record was written.
CleanRecordUpdated ==
    [][(/\ RealtimeStep
        /\ Head(events).eventType = "UPDATE"
        /\ Head(events).row.id \in owed \cap DOMAIN local) =>
          DomainFields(local'[Head(events).row.id]) =
              DomainFields(MapRow(Head(events).row))]_vars

\* The payload of an update found the record as the sync had written it,
\* and the record still holds the old value
UpdateDropped ==
    /\ call # NoCall
    /\ call.clean
    /\ call.payload.eventType = "UPDATE"
    /\ \E localDoc \in call.localDoc :
          /\ localDoc.val # call.payload.row.val
          /\ localDoc.id \in owed \cap DOMAIN local
          /\ local[localDoc.id].val = localDoc.val
          /\ remote[localDoc.id] = call.payload.row

\* ------------------------------------------------ C34
\* C34: the db.put of pushLocalChanges leaves lastPullTimestamp as it was
\* and the db.put of pullCollection leaves lastPushTimestamp as it was,
\* also when no _sync_meta record is stored.
WatermarkFrame ==
    [][\A c \in Callers :
        /\ (pc[c] = "push_put" /\ pc'[c] # pc[c]) =>
              LastPullOf(meta') = LastPullOf(meta)
        /\ (pc[c] = "pull_put" /\ pc'[c] # pc[c]) =>
              LastPushOf(meta') = LastPushOf(meta)]_vars

\* The pull of the first forced sync has set the push watermark: no push
\* has written _sync_meta yet
PullSetPushWatermark ==
    /\ lastSync = 0
    /\ pc["listener"] = "push_read"
    /\ LastPushOf(meta) > 0
    /\ LastPushOf(meta) = LastPullOf(meta)

\* ------------------------------------------------ C35
\* C35: when pulls and pushes of overlapping forced syncs interleave, the
\* db.put of a pull leaves a stored lastPushTimestamp as the latest push
\* wrote it, and the db.put of a push leaves a stored lastPullTimestamp as
\* the latest pull wrote it.
NoLostWatermark ==
    [][\A c \in Callers :
        /\ (pc[c] = "pull_put" /\ pc'[c] # pc[c] /\ LastPushOf(meta) > 0) =>
              LastPushOf(meta') = LastPushOf(meta)
        /\ (pc[c] = "push_put" /\ pc'[c] # pc[c] /\ LastPullOf(meta) > 0) =>
              LastPullOf(meta') = LastPullOf(meta)]_vars

\* A pull is about to put back the _sync_meta record it read before a push
\* of the other forced sync advanced lastPushTimestamp
StaleWatermarkRead ==
    \E c \in Callers :
        /\ pc[c] = "pull_put"
        /\ syncMeta[c] # NoMeta
        /\ LastPushOf(syncMeta[c]) < LastPushOf(meta)

\* ------------------------------------------------ C36
\* The channels of the collection that are subscribed: the one
\* syncState.channels holds and those it has lost
Subscriptions == (IF subscribed THEN 1 ELSE 0) + leaked

\* C36: at most one channel of a collection is subscribed at any time, also
\* after several forced syncs with no stopAllSync between them.
OneSubscription == Subscriptions <= 1

\* Two channels of the collection are subscribed after a second forced sync
TwoSubscriptions == subscribed /\ leaked > 0 /\ pc["app"] = "idle"

\* ------------------------------------------------ C37
\* getSyncStatus().isSyncing
getSyncStatus == [isOnline |-> isOnline, isSyncing |-> isSyncing]

\* C37: getSyncStatus().isSyncing is true in every state in which a forced
\* sync is in flight and false in every state in which none is, overlapping
\* forced syncs and failed steps included.
IsSyncingTracksFlight == getSyncStatus.isSyncing <=> \E c \in Callers : pc[c] # "idle"

\* The first of two overlapping forced syncs has ended and cleared the flag
\* while the second is between its pull and its push
FlagClearedInFlight ==
    /\ ~getSyncStatus.isSyncing
    /\ pc["listener"] = "idle"
    /\ pc["app"] \in {"pull_bulk", "pull_put", "push_read"}

\* ------------------------------------------------ C38
\* C38: when handling a realtime INSERT or UPDATE finds a local copy with
\* the greater modified, the stored record is after it what it was before in
\* every field, modified and updatedAt included.
LocalWinnerUntouched ==
    [][(/\ RealtimeStep
        /\ Head(events).eventType \in {"INSERT", "UPDATE"}
        /\ Head(events).row.id \in DOMAIN local
        /\ local[Head(events).row.id].modified > Head(events).row._modified)
       => local'[Head(events).row.id] = local[Head(events).row.id]]_vars

\* The local copy won, the application has not written since, and the stored
\* record carries a later modified than the copy that won
LocalWinnerRestamped ==
    /\ call # NoCall
    /\ call.clean
    /\ call.payload.eventType \in {"INSERT", "UPDATE"}
    /\ \E localDoc \in call.localDoc :
          /\ localDoc.modified > call.payload.row._modified
          /\ localDoc.id \in owed \cap DOMAIN local
          /\ local[localDoc.id].val = localDoc.val
          /\ local[localDoc.id].modified > localDoc.modified
          /\ local[localDoc.id].updatedAt > localDoc.updatedAt

\* ------------------------------------------------ the points ledger (SQL)
\* SQL NULL
Null == -99

Members == {"parent", "child"}
Sessions == {"s1", "s2"}
RewardIds == {"r1"}
Amounts == 0..MaxPoints

\* points - cost, points + amount: NULL when an operand is
Minus(a, b) == IF a = Null \/ b = Null THEN Null ELSE a - b
Plus(a, b) == IF a = Null \/ b = Null THEN Null ELSE a + b

\* a < b is true in an IF: neither operand is NULL and a is less
Less(a, b) == a # Null /\ b # Null /\ a < b

\* household_members without CONSTRAINT valid_points
valid_pointsDropped(points) == TRUE

\* household_members: CONSTRAINT valid_points CHECK (points >= 0)
valid_points(points) == points = Null \/ points >= 0

\* rewards without CONSTRAINT valid_quantity
valid_quantityDropped(quantity_available) == TRUE

\* rewards: CONSTRAINT valid_quantity
valid_quantity(quantity_available) == quantity_available = Null \/ quantity_available >= 0

\* UPDATE household_members SET points = ...: the error it raises, or "ok";
\* points is NOT NULL
UpdatePoints(points) ==
    IF points = Null THEN "not_null_violation"
    ELSE IF ~valid_points(points) THEN "check_violation"
    ELSE "ok"

\* UPDATE rewards SET quantity_available = ...
UpdateQuantity(quantity_available) ==
    IF ~valid_quantity(quantity_available) THEN "check_violation" ELSE "ok"

\* The rows a rewards table can hold at the start
RewardRows ==
    {row \in [points_cost : {Null} \cup Amounts,
              quantity_available : {Null} \cup (0..MaxQuantity),
              is_active : BOOLEAN,
              _deleted : BOOLEAN] : row.is_active \/ ~row._deleted}

Idle == [at |-> "idle", raised |-> "none"]
Raised(message) == [at |-> "idle", raised |-> message]

\* What the ledger steps leave alone
clientVars == <<now, flagVars, local, meta, remote, events, syncVars, watch, quiet, call,
                available, started, dbInstance, owed, failed, pullRange>>

\* validate_reward_redemption up to its checks, for INSERT INTO
\* reward_redemptions (reward_id, redeemed_by) in session s: the two SELECTs
\* and the three IFs
RedeemSelect(s, member, reward_id) ==
    /\ sessions[s].at = "idle"
    /\ Len(reward_redemptions) < MaxRedemptions
    /\ LET member_points == household_members[member]
           found == /\ reward_id \in DOMAIN rewards
                    /\ rewards[reward_id].is_active
                    /\ ~rewards[reward_id]._deleted
       IN  sessions' = [sessions EXCEPT ![s] =
               IF ~found THEN Raised("Reward not found or inactive")
               ELSE LET reward_cost == rewards[reward_id].points_cost
                        reward_quantity == rewards[reward_id].quantity_available
                    IN  IF Less(member_points, reward_cost)
                        THEN Raised("Insufficient points")
                        ELSE IF reward_quantity # Null /\ reward_quantity <= 0
                        THEN Raised("Reward is out of stock")
                        ELSE [at |-> "validated", raised |-> "none",
                              redeemed_by |-> member, reward_id |-> reward_id,
                              reward_cost |-> reward_cost,
                              reward_quantity |-> reward_quantity]]
    /\ UNCHANGED <<household_members, rewards, reward_redemptions, chore_completions, clientVars>>

\* validate_reward_redemption from NEW.points_spent on, and the insert of
\* the row: the UPDATEs read the rows as they are now; an error undoes the
\* statement
RedeemUpdate(s) ==
    /\ sessions[s].at = "validated"
    /\ LET member == sessions[s].redeemed_by
           reward_id == sessions[s].reward_id
           reward_cost == sessions[s].reward_cost
           points == Minus(household_members[member], reward_cost)
           quantity == IF sessions[s].reward_quantity # Null
                       THEN Minus(rewards[reward_id].quantity_available, 1)
                       ELSE rewards[reward_id].quantity_available
           error == IF UpdatePoints(points) # "ok" THEN UpdatePoints(points)
                    ELSE UpdateQuantity(quantity)
       IN  IF error # "ok"
           THEN /\ sessions' = [sessions EXCEPT ![s] = Raised(error)]
                /\ UNCHANGED <<household_members, rewards, reward_redemptions>>
           ELSE /\ sessions' = [sessions EXCEPT ![s] = Idle]
                /\ household_members' = [household_members EXCEPT ![member] = points]
                /\ rewards' = [rewards EXCEPT ![reward_id].quantity_available = quantity]
                /\ reward_redemptions' =
                       Append(reward_redemptions,
                              [reward_id |-> reward_id, redeemed_by |-> member,
                               points_spent |-> reward_cost, status |-> "pending"])
    /\ UNCHANGED <<chore_completions, clientVars>>

\* refund_points_on_cancellation: UPDATE reward_redemptions SET status =
\* 'cancelled' on a pending row
CancelRedemption(i) ==
    /\ i \in 1..Len(reward_redemptions)
    /\ reward_redemptions[i].status = "pending"
    /\ LET old == reward_redemptions[i]
           points == Plus(household_members[old.redeemed_by], old.points_spent)
           quantity == rewards[old.reward_id].quantity_available
       IN  /\ UpdatePoints(points) = "ok"
           /\ household_members' = [household_members EXCEPT ![old.redeemed_by] = points]
           /\ rewards' = [rewards EXCEPT ![old.reward_id].quantity_available =
                              IF quantity # Null THEN quantity + 1 ELSE quantity]
           /\ reward_redemptions' = [reward_redemptions EXCEPT ![i].status = "cancelled"]
    /\ UNCHANGED <<sessions, chore_completions, clientVars>>

\* update_member_points_on_approval: points_awarded is the completion's
\* or the chore's points, which may be NULL
ApproveCompletion(member, points_awarded) ==
    /\ LET points == Plus(household_members[member], points_awarded)
       IN  /\ points <= MaxPoints
           /\ household_members' =
                  IF UpdatePoints(points) = "ok"
                  THEN [household_members EXCEPT ![member] = points]
                  ELSE household_members
    /\ UNCHANGED <<rewards, reward_redemptions, sessions, chore_completions, clientVars>>

\* apply_point_adjustment: the balance after the two UPDATEs, or the
\* error of the first
apply_point_adjustment(points, amount) ==
    LET added == Plus(points, amount)
    IN  IF UpdatePoints(added) # "ok" THEN [error |-> UpdatePoints(added)]
        ELSE [points |-> IF added < 0 THEN 0 ELSE added]

\* INSERT INTO point_adjustments (user_id, amount)
AdjustPoints(member, amount) ==
    /\ LET result == apply_point_adjustment(household_members[member], amount)
       IN  household_members' =
               IF "error" \in DOMAIN result THEN household_members
               ELSE [household_members EXCEPT ![member] = result.points]
    /\ household_members'[member] <= MaxPoints
    /\ UNCHANGED <<rewards, reward_redemptions, sessions, chore_completions, clientVars>>

NextLedger ==
    \/ \E s \in Sessions, member \in Members, reward_id \in RewardIds :
          RedeemSelect(s, member, reward_id)
    \/ \E s \in Sessions : RedeemUpdate(s)
    \/ \E i \in DOMAIN reward_redemptions : CancelRedemption(i)
    \/ \E member \in Members, points_awarded \in {Null} \cup Amounts :
          ApproveCompletion(member, points_awarded)
    \/ \E member \in Members, amount \in (-MaxPoints)..MaxPoints :
          AdjustPoints(member, amount)

\* Every member joined with no points; the reward is any row, or missing
InitLedger ==
    /\ InitSync("none", FALSE, TRUE)
    /\ isOnline
    /\ household_members = [member \in Members |-> 0]
    /\ \/ rewards = <<>>
       \/ rewards \in [RewardIds -> RewardRows]
    /\ reward_redemptions = <<>>
    /\ sessions = [s \in Sessions |-> Idle]
    /\ chore_completions = <<>>

SpecLedger == InitLedger /\ [][NextLedger]_vars

\* ------------------------------------------------ chore completions (SQL)
Completions == {"c1", "c2"}
Statuses == {"pending", "approved", "rejected"}

\* The chores table: points of the chore the completions are of
chores == [dishes |-> [points |-> MaxPoints - 1]]

\* The rows INSERT INTO chore_completions leaves: status and reviewed_at
\* take their defaults
CompletionRows ==
    [chore_id : DOMAIN chores, completed_by : Members, status : {"pending"},
     points_awarded : {Null} \cup Amounts, reviewed_at : {Null}]

\* UPDATE chore_completions SET status = ... WHERE id = i, with the trigger
\* update_member_points_on_approval
UpdateCompletion(i, status) ==
    /\ i \in DOMAIN chore_completions
    /\ LET OLD == chore_completions[i]
           points_awarded == IF OLD.points_awarded = Null
                             THEN chores[OLD.chore_id].points
                             ELSE OLD.points_awarded
           points == Plus(household_members[OLD.completed_by], points_awarded)
       IN  IF status = "approved" /\ OLD.status # "approved"
           THEN /\ points <= MaxPoints
                /\ UpdatePoints(points) = "ok"
                /\ household_members' = [household_members EXCEPT ![OLD.completed_by] = points]
                /\ chore_completions' =
                       [chore_completions EXCEPT ![i] =
                           [OLD EXCEPT !.status = status,
                                       !.points_awarded = points_awarded,
                                       !.reviewed_at = now]]
           ELSE /\ chore_completions' = [chore_completions EXCEPT ![i].status = status]
                /\ UNCHANGED household_members
    /\ UNCHANGED <<rewards, reward_redemptions, sessions, clientVars>>

NextApprovals == \E i \in Completions, status \in Statuses : UpdateCompletion(i, status)

\* Every member joined with no points; the completions wait for review
InitApprovals ==
    /\ InitSync("none", FALSE, TRUE)
    /\ isOnline
    /\ household_members = [member \in Members |-> 0]
    /\ rewards = <<>>
    /\ reward_redemptions = <<>>
    /\ sessions = [s \in Sessions |-> Idle]
    /\ chore_completions \in [Completions -> CompletionRows]

SpecApprovals == InitApprovals /\ [][NextApprovals]_vars

\* ------------------------------------------------ C39
\* The points completion i awards
Awarded(i) ==
    IF chore_completions[i].points_awarded = Null
    THEN chores[chore_completions[i].chore_id].points
    ELSE chore_completions[i].points_awarded

RECURSIVE TotalAwarded(_)
TotalAwarded(is) ==
    IF is = {} THEN 0
    ELSE LET i == CHOOSE j \in is : TRUE IN Awarded(i) + TotalAwarded(is \ {i})

\* C39: whatever the sequence of status updates, a completion's points are
\* credited at most once: a member's balance, which only approvals feed, is
\* at most the sum of the points of the member's completions.
CreditedOnce ==
    \A member \in Members :
        household_members[member] <=
            TotalAwarded({i \in Completions : chore_completions[i].completed_by = member})

\* A completion approved, rejected and approved again has put its points
\* on the member's balance twice
CreditedTwice ==
    /\ chore_completions["c1"].status = "approved"
    /\ chore_completions["c2"].status = "pending"
    /\ chore_completions["c1"].completed_by # chore_completions["c2"].completed_by
    /\ Awarded("c1") > 0
    /\ household_members[chore_completions["c1"].completed_by] = Awarded("c1") + Awarded("c1")

\* ------------------------------------------------ redemption statuses (SQL)
\* reward_redemptions: CHECK (status IN ('pending', 'fulfilled', 'cancelled'))
RedemptionStatuses == {"pending", "fulfilled", "cancelled"}

\* UPDATE reward_redemptions SET status = ... on row i, by an admin of the
\* household: refund_points_on_cancellation runs before it
UpdateRedemption(i, status) ==
    /\ i \in DOMAIN reward_redemptions
    /\ IF status = "cancelled" /\ reward_redemptions[i].status = "pending"
       THEN CancelRedemption(i)
       ELSE /\ reward_redemptions' = [reward_redemptions EXCEPT ![i].status = status]
            /\ UNCHANGED <<household_members, rewards, sessions, chore_completions,
                           clientVars>>

\* No balance and no stock is above what the tables started with
AtMostStart ==
    /\ \A member \in Members : household_members[member] <= MaxPoints
    /\ \A reward_id \in DOMAIN rewards :
          \/ rewards[reward_id].quantity_available = Null
          \/ rewards[reward_id].quantity_available <= MaxQuantity

\* Redemptions and updates of their status; the updates stop once a balance
\* or a stock has passed its start
NextRefunds ==
    \/ \E s \in Sessions, member \in Members, reward_id \in RewardIds :
          RedeemSelect(s, member, reward_id)
    \/ \E s \in Sessions : RedeemUpdate(s)
    \/ \E i \in DOMAIN reward_redemptions, status \in RedemptionStatuses :
          AtMostStart /\ UpdateRedemption(i, status)

\* Every member holds MaxPoints points, which nothing but a refund can add to
InitRefunds ==
    /\ InitSync("none", FALSE, TRUE)
    /\ isOnline
    /\ household_members = [member \in Members |-> MaxPoints]
    /\ rewards \in [RewardIds -> RewardRows]
    /\ reward_redemptions = <<>>
    /\ sessions = [s \in Sessions |-> Idle]
    /\ chore_completions = <<>>

SpecRefunds == InitRefunds /\ [][NextRefunds]_vars

PointsNeverNegative ==
    \A member \in DOMAIN household_members :
        /\ household_members[member] # Null
        /\ household_members[member] >= 0

\* Two redemptions of one member were validated at the same balance; the
\* first has taken the points, the second was refused by the constraint
SecondRedemptionRefused ==
    /\ Len(reward_redemptions) > 0
    /\ \E s \in Sessions : sessions[s].raised = "check_violation"
    /\ \E member \in Members :
          household_members[member] < reward_redemptions[1].points_spent

\* ------------------------------------------------ C24
\* The step inserts a row into reward_redemptions
Inserted == Len(reward_redemptions') = Len(reward_redemptions) + 1

\* The step ends an insert of session s with an exception
Rejected(s) == sessions'[s] # sessions[s] /\ sessions'[s].raised # "none"

\* C24: a redemption is inserted only for a reward that exists, is active
\* and not deleted, by a member who has at least its cost, while the
\* quantity is unlimited or more than 0; the insert takes exactly the cost
\* from the member's points, stores it as points_spent and takes 1 from a
\* limited quantity; a rejected insert leaves points and quantity as they
\* were.
RedemptionIsValidated ==
    [][/\ Inserted =>
            LET row == reward_redemptions'[Len(reward_redemptions')]
                member == row.redeemed_by
                reward_id == row.reward_id
            IN  /\ reward_id \in DOMAIN rewards
                /\ rewards[reward_id].is_active
                /\ ~rewards[reward_id]._deleted
                /\ rewards[reward_id].points_cost # Null
                /\ household_members[member] >= rewards[reward_id].points_cost
                /\ \/ rewards[reward_id].quantity_available = Null
                   \/ rewards[reward_id].quantity_available > 0
                /\ household_members' =
                       [household_members EXCEPT ![member] =
                           household_members[member] - rewards[reward_id].points_cost]
                /\ row.points_spent = rewards[reward_id].points_cost
                /\ rewards' =
                       [rewards EXCEPT ![reward_id].quantity_available =
                           IF rewards[reward_id].quantity_available = Null THEN Null
                           ELSE rewards[reward_id].quantity_available - 1]
       /\ (\E s \in Sessions : Rejected(s)) =>
            UNCHANGED <<household_members, rewards, reward_redemptions>>]_vars

\* The last piece of a reward that costs points was redeemed, and an
\* insert validated at the same time by a member who still has the cost
\* was refused for the quantity
RedeemedAndRefused ==
    /\ Len(reward_redemptions) = 1
    /\ reward_redemptions[1].status = "pending"
    /\ reward_redemptions[1].points_spent > 0
    /\ rewards[reward_redemptions[1].reward_id].quantity_available = 0
    /\ \A member \in Members :
          household_members[member] >= reward_redemptions[1].points_spent
    /\ \E s \in Sessions : sessions[s].raised = "check_violation"

\* ------------------------------------------------ reads of the local store
\* getModifiedSince(collection, timestamp) called on the store the
\* application has written
GetModifiedSince(timestamp) ==
    /\ call = NoCall
    /\ call' = [fn |-> "getModifiedSince", timestamp |-> timestamp,
                result |-> getModifiedSince(local, timestamp)]
    /\ UNCHANGED <<now, flagVars, local, meta, remote, events, syncVars, watch, quiet,
                   available, started, dbVars, owed, failed, pullRange>>

Watermarks == 0..MaxClock

\* The application writes while the clock runs, then reads
NextStore ==
    \/ Tick
    \/ call = NoCall /\ AppWrites(Ids)
    \/ \E timestamp \in Watermarks : GetModifiedSince(timestamp)

InitStore == InitCalls({NoCall})
SpecStore == InitStore /\ [][NextStore]_vars

\* ------------------------------------------------ C17
\* C17: a soft remove of a stored record leaves it stored with isDeleted
\* set, its id and its domain field as they were and modified at the time
\* of the call, so getById returns it; a hard remove deletes it, so getById
\* returns nothing. No other record changes.
Removed(id, hard) ==
    /\ \A other \in Ids \ {id} : getById(local', other) = getById(local, other)
    /\ IF hard
       THEN getById(local', id) = {}
       ELSE \E d \in getById(local', id) :
              /\ d.isDeleted
              /\ d.id = id
              /\ d.val = local[id].val
              /\ d.modified = now

RemoveSemantics ==
    [][\A id \in Ids, hard \in BOOLEAN : Remove(id, hard) => Removed(id, hard)]_vars

\* A record written at an earlier time is soft-deleted now, next to a
\* record that is not
SoftRemovedNow ==
    /\ now > 1
    /\ \E id \in DOMAIN local :
          /\ local[id].isDeleted
          /\ local[id].val \in AppVals
          /\ local[id].modified = now
    /\ \E id \in DOMAIN local : ~local[id].isDeleted

\* ------------------------------------------------ C18
\* C18: for every watermark t, getModifiedSince returns each stored record
\* with modified > t once, soft-deleted ones included, and no other record,
\* in ascending order of modified; a record with modified = t is left out.
ModifiedSinceExact ==
    call.fn = "getModifiedSince" =>
        LET result == call.result
            t == call.timestamp
            later == {id \in DOMAIN local : local[id].modified > t}
        IN  /\ Len(result) = Cardinality(later)
            /\ \A id \in later : \E i \in 1..Len(result) : result[i] = local[id]
            /\ \A i \in 1..Len(result) : result[i].modified # t
            /\ \A i, j \in 1..Len(result) :
                  i < j => result[i].modified <= result[j].modified

\* The store holds a record modified at the watermark and a soft-deleted
\* one modified after it; the call has returned the second only
WatermarkRecordLeftOut ==
    /\ call.fn = "getModifiedSince"
    /\ \E id \in DOMAIN local : local[id].modified = call.timestamp
    /\ Len(call.result) = 1
    /\ call.result[1].isDeleted
    /\ call.result[1].modified > call.timestamp

\* ------------------------------------------------ C12
\* C12: a forceSyncAll invoked while a forced sync is in flight starts no
\* second run: at most one forced sync runs at any time.
InFlight(c) == pc[c] # "idle"

AtMostOneForcedSync == Cardinality({c \in Callers : InFlight(c)}) <= 1
====
